---- MODULE Spec2Model ----
(***************************************************************************)
(* Music Butler: the QR-driven playback / print orchestrator               *)
(* (core/butler.py), the identifier validation (qr/scanner.py) and the     *)
(* content-service client (spotify/client.py).                             *)
(*                                                                         *)
(* Python str values are sequences of one-character strings, so that       *)
(* str.startswith is computed character by character.  Python's None, for  *)
(* a value that is otherwise a str, is the one-element sequence None,      *)
(* which is no text (its element is not a character).                      *)
(***************************************************************************)
EXTENDS Integers, Sequences, FiniteSets, TLC

None == <<"None">>

\* Python truthiness of a str-or-None value: None and '' are falsy.
Truthy(v) == v # None /\ v # <<>>

\* str.startswith(prefix)
StartsWith(s, prefix) ==
    /\ s # None
    /\ Len(s) >= Len(prefix)
    /\ SubSeq(s, 1, Len(prefix)) = prefix

PLAYLIST_PREFIX ==
    <<"s", "p", "o", "t", "i", "f", "y", ":", "p", "l", "a", "y", "l", "i", "s", "t", ":">>
ALBUM_PREFIX ==
    <<"s", "p", "o", "t", "i", "f", "y", ":", "a", "l", "b", "u", "m", ":">>
TRACK_PREFIX ==
    <<"s", "p", "o", "t", "i", "f", "y", ":", "t", "r", "a", "c", "k", ":">>

\* Heads that are none of the three prefixes, for the texts validation is tried on.
ARTIST_HEAD ==
    <<"s", "p", "o", "t", "i", "f", "y", ":", "a", "r", "t", "i", "s", "t", ":">>
URL_HEAD ==
    <<"h", "t", "t", "p", "s", ":", "/", "/", "o", "p", "e", "n", ".", "s", "p", "o", "t", "i", "f", "y", ".", "c", "o", "m", "/", "t", "r", "a", "c", "k", "/">>
TRACK_NO_COLON ==
    <<"s", "p", "o", "t", "i", "f", "y", ":", "t", "r", "a", "c", "k">>
CAPITAL_HEAD ==
    <<"S", "p", "o", "t", "i", "f", "y", ":", "t", "r", "a", "c", "k", ":">>
SPACE_HEAD ==
    <<" ", "s", "p", "o", "t", "i", "f", "y", ":", "a", "l", "b", "u", "m", ":">>
SHOW_HEAD ==
    <<"s", "p", "o", "t", "i", "f", "y", ":", "s", "h", "o", "w", ":">>
PLAYLISTS_HEAD ==
    <<"s", "p", "o", "t", "i", "f", "y", ":", "p", "l", "a", "y", "l", "i", "s", "t", "s", ":">>

Prefixes == {PLAYLIST_PREFIX, ALBUM_PREFIX, TRACK_PREFIX}

\* QRScanner.is_valid_spotify_uri: qr_data.startswith((playlist, album, track))
is_valid_spotify_uri(qr_data) ==
    \/ StartsWith(qr_data, PLAYLIST_PREFIX)
    \/ StartsWith(qr_data, ALBUM_PREFIX)
    \/ StartsWith(qr_data, TRACK_PREFIX)

\* The ids appended to a head: empty, short, and ones holding a colon.
Ids == {<<>>, <<"A">>, <<"7", "x">>, <<":">>, <<"A", ":", "B">>, <<"3", "z", "Q">>}

Heads ==
    Prefixes \cup {<<>>, ARTIST_HEAD, URL_HEAD, TRACK_NO_COLON, CAPITAL_HEAD,
                   SPACE_HEAD, SHOW_HEAD, PLAYLISTS_HEAD}

Texts == {h \o i : h \in Heads, i \in Ids}

(***************************************************************************)
(* Program constants (config/settings.py)                                  *)
(***************************************************************************)
SCAN_COOLDOWN == 3
DEFAULT_VOLUME == 70
VOLUME_STEP == 2
KEY_VOLUME_STEP == 5
\* DOUBLE_PRESS_TIMEOUT = 0.5 s; the encoder's times are in tenths of a second.
DOUBLE_PRESS_TIMEOUT == 5
\* is_jieli_printer = (self.vendor_id == 0x4c4a)
JIELI_VENDOR == 19530
\* The vendor id of a printer of another make (0x0416, named in config.py).
OTHER_VENDOR == 1046

(***************************************************************************)
(* Bounds of the model                                                     *)
(***************************************************************************)
\* The earliest reading of time.time(), in seconds; the epoch clock is far
\* beyond SCAN_COOLDOWN when the process starts, so the model starts past it.
ClockStart == 4
\* Seconds between the earliest and the latest reading of the clock.
MaxElapsed == 4
\* Volume changes (keys and knob) over a run.
MaxVolumeChanges == 1
\* The earliest reading of time.time() in the encoder thread, in tenths of a
\* second: as far from last_press_time = 0 as the timeout, which the epoch
\* clock always is.
EncClockStart == 5
\* Tenths of a second between the earliest and the latest reading there.
EncMaxElapsed == 12
\* Press edges the polling loop sees over a run.
MaxPresses == 2

\* The largest number of connection candidates that an environment lets succeed.
MaxUsable == 2
\* How far from its first position the knob is turned, in detents.
MaxPosition == 1
\* Volume keys handled and volume callbacks run, counted in volume_changes.
MaxVolumeCalls == 7

(***************************************************************************)
(* The content service (spotify/client.py).  What the remote service       *)
(* answers is an input of each call; the operators compute what the        *)
(* client makes of it.                                                     *)
(***************************************************************************)
D1 == <<"d1">>
D2 == <<"d2">>

\* sp.devices(): an exception (ok = FALSE) or the list of devices: none, one that
\* is not active, and an active one behind one that is not.
DeviceResponses ==
    { [ok |-> FALSE, devices |-> <<>>],
      [ok |-> TRUE,  devices |-> <<>>],
      [ok |-> TRUE,  devices |-> <<[id |-> D1, is_active |-> FALSE]>>],
      [ok |-> TRUE,  devices |-> <<[id |-> D2, is_active |-> FALSE],
                                   [id |-> D1, is_active |-> TRUE]>>] }

\* SpotifyClient.get_active_device
get_active_device(resp) ==
    IF ~resp.ok THEN None
    ELSE IF Len(resp.devices) > 0
         THEN IF \E i \in 1..Len(resp.devices) : resp.devices[i].is_active
              THEN LET first == CHOOSE i \in 1..Len(resp.devices) :
                                  /\ resp.devices[i].is_active
                                  /\ \A j \in 1..(i - 1) : ~resp.devices[j].is_active
                   IN  resp.devices[first].id
              ELSE resp.devices[1].id
         ELSE None

\* sp.playlist / sp.album / sp.track: an exception (ok = FALSE) or the metadata.
\* No lookup: the answer of a lookup that failed or was not made.
NoLookup == [ok |-> FALSE, name |-> "", person |-> ""]

LookupResponses ==
    { NoLookup,
      [ok |-> TRUE,  name |-> "Blue", person |-> "Ann"] }

\* Faulty variant of get_content_info: a lookup that failed is read as an answer.
get_content_info_reads_failed_lookup(uri, lookup) ==
    IF StartsWith(uri, PLAYLIST_PREFIX)
    THEN [type |-> "playlist", name |-> lookup.name, owner |-> lookup.person,
          display |-> "Playlist: " \o lookup.name]
    ELSE IF StartsWith(uri, ALBUM_PREFIX)
    THEN [type |-> "album", name |-> lookup.name, artist |-> lookup.person,
          display |-> "Album: " \o lookup.name \o " by " \o lookup.person]
    ELSE IF StartsWith(uri, TRACK_PREFIX)
    THEN [type |-> "track", name |-> lookup.name, artist |-> lookup.person,
          display |-> "Track: " \o lookup.name \o " by " \o lookup.person]
    ELSE [type |-> "unknown", name |-> "Unknown", display |-> "Unknown content"]

\* SpotifyClient.get_content_info
get_content_info(uri, lookup) ==
    IF StartsWith(uri, PLAYLIST_PREFIX) /\ lookup.ok
    THEN [type |-> "playlist", name |-> lookup.name, owner |-> lookup.person,
          display |-> "Playlist: " \o lookup.name]
    ELSE IF ~StartsWith(uri, PLAYLIST_PREFIX) /\ StartsWith(uri, ALBUM_PREFIX) /\ lookup.ok
    THEN [type |-> "album", name |-> lookup.name, artist |-> lookup.person,
          display |-> "Album: " \o lookup.name \o " by " \o lookup.person]
    ELSE IF /\ ~StartsWith(uri, PLAYLIST_PREFIX) /\ ~StartsWith(uri, ALBUM_PREFIX)
            /\ StartsWith(uri, TRACK_PREFIX) /\ lookup.ok
    THEN [type |-> "track", name |-> lookup.name, artist |-> lookup.person,
          display |-> "Track: " \o lookup.name \o " by " \o lookup.person]
    ELSE [type |-> "unknown", name |-> "Unknown", display |-> "Unknown content"]

\* dict.get(key, default)
Get(d, key, default) == IF key \in DOMAIN d THEN d[key] ELSE default

\* One playback command sent to the service.  uris is the uris list (empty when the
\* keyword is not passed), context_uri the context_uri keyword (None when not
\* passed), ok whether the service accepted it (FALSE: the call raised).
Command(cmd, device_id, uris, context_uri, ok) ==
    [cmd |-> cmd, device_id |-> device_id, uris |-> uris,
     context_uri |-> context_uri, ok |-> ok]

\* Faulty variant of spotify_play_content: every identifier goes out as context_uri.
spotify_play_content_context_only(spotify_uri, device_id, start_ok) ==
    [ret |-> start_ok,
     commands |-> <<Command("start_playback", device_id, <<>>, spotify_uri, start_ok)>>]

\* SpotifyClient.play_content
spotify_play_content(spotify_uri, device_id, start_ok) ==
    [ret |-> start_ok,
     commands |->
        IF StartsWith(spotify_uri, TRACK_PREFIX)
        THEN <<Command("start_playback", device_id, <<spotify_uri>>, None, start_ok)>>
        ELSE <<Command("start_playback", device_id, <<>>, spotify_uri, start_ok)>>]

\* The identifiers of the model: one of each supported kind, an unsupported
\* context, and the album of the track the service reports as playing.
PlaylistA == PLAYLIST_PREFIX \o <<"A">>
AlbumB == ALBUM_PREFIX \o <<"B">>
TrackC == TRACK_PREFIX \o <<"C">>
ArtistD == ARTIST_HEAD \o <<"D">>
AlbumE == ALBUM_PREFIX \o <<"E">>

\* playback['context'] and playback['item'] of sp.current_playback()
NoContext == [present |-> FALSE, uri |-> None, type |-> "None"]
Context(uri, type) == [present |-> TRUE, uri |-> uri, type |-> type]
\* album_null: item['album'] is None; album_uri: item['album'].get('uri')
NoItem == [present |-> FALSE, album_null |-> FALSE, album_uri |-> None]
Item(album_null, album_uri) ==
    [present |-> TRUE, album_null |-> album_null, album_uri |-> album_uri]

NoPlayback == [exists |-> FALSE, is_playing |-> FALSE, context |-> NoContext, item |-> NoItem]
Playback(is_playing, context, item) ==
    [exists |-> TRUE, is_playing |-> is_playing, context |-> context, item |-> item]

\* sp.current_playback(): an exception (ok = FALSE), None, or the playback state.
FailedResponse == [ok |-> FALSE, playback |-> NoPlayback]
Answer(playback) == [ok |-> TRUE, playback |-> playback]

\* The answers toggle_playback tells apart: an exception, None, paused with and
\* without a current item, and playing.
ToggleResponses ==
    { FailedResponse,
      Answer(NoPlayback),
      Answer(Playback(FALSE, Context(PlaylistA, "playlist"), Item(FALSE, AlbumE))),
      Answer(Playback(FALSE, NoContext, NoItem)),
      Answer(Playback(TRUE, Context(PlaylistA, "playlist"), Item(FALSE, AlbumE))) }

\* The answers print_current_content tells apart: those above, and playing from
\* each kind of context and from none, with each shape of the current item.
PlaybackResponses ==
    ToggleResponses \cup
    { Answer(Playback(TRUE, Context(AlbumB, "album"), Item(FALSE, AlbumB))),
      Answer(Playback(TRUE, Context(ArtistD, "artist"), Item(FALSE, AlbumE))),
      Answer(Playback(TRUE, Context(ArtistD, "artist"), NoItem)),
      Answer(Playback(TRUE, NoContext, Item(FALSE, AlbumE))),
      Answer(Playback(TRUE, NoContext, Item(FALSE, None))),
      Answer(Playback(TRUE, NoContext, Item(TRUE, None))),
      Answer(Playback(TRUE, NoContext, NoItem)) }

\* The dict SpotifyClient.get_current_playback returns, or None (some = FALSE).
NoPlaybackInfo ==
    [some |-> FALSE, context_uri |-> None, context_type |-> "None", track |-> NoItem]

\* SpotifyClient.get_current_playback
get_current_playback(resp) ==
    IF resp.ok /\ resp.playback.exists /\ resp.playback.is_playing
    THEN [some |-> TRUE,
          context_uri |-> IF resp.playback.context.present
                          THEN resp.playback.context.uri ELSE None,
          context_type |-> IF resp.playback.context.present
                           THEN resp.playback.context.type ELSE "None",
          track |-> resp.playback.item]
    ELSE NoPlaybackInfo

\* Faulty variant of spotify_toggle_playback: the remembered context comes
\* before the current item.
spotify_toggle_playback_context_first(device_id, current_playback_context, resp, cmd_ok) ==
    IF ~resp.ok
    THEN [success |-> FALSE, is_playing |-> FALSE, commands |-> <<>>]
    ELSE IF resp.playback.exists /\ resp.playback.is_playing
    THEN [success |-> cmd_ok, is_playing |-> FALSE,
          commands |-> <<Command("pause_playback", device_id, <<>>, None, cmd_ok)>>]
    ELSE IF Truthy(current_playback_context)
    THEN [success |-> cmd_ok, is_playing |-> cmd_ok,
          commands |->
            IF StartsWith(current_playback_context, TRACK_PREFIX)
            THEN <<Command("start_playback", device_id,
                           <<current_playback_context>>, None, cmd_ok)>>
            ELSE <<Command("start_playback", device_id,
                           <<>>, current_playback_context, cmd_ok)>>]
    ELSE IF resp.playback.exists /\ resp.playback.item.present
    THEN [success |-> cmd_ok, is_playing |-> cmd_ok,
          commands |-> <<Command("start_playback", device_id, <<>>, None, cmd_ok)>>]
    ELSE [success |-> FALSE, is_playing |-> FALSE, commands |-> <<>>]

\* SpotifyClient.toggle_playback: (success, is_playing) and the commands sent.
spotify_toggle_playback(device_id, current_playback_context, resp, cmd_ok) ==
    IF ~resp.ok
    THEN [success |-> FALSE, is_playing |-> FALSE, commands |-> <<>>]
    ELSE IF resp.playback.exists /\ resp.playback.is_playing
    THEN [success |-> cmd_ok, is_playing |-> FALSE,
          commands |-> <<Command("pause_playback", device_id, <<>>, None, cmd_ok)>>]
    ELSE IF resp.playback.exists /\ resp.playback.item.present
    THEN [success |-> cmd_ok, is_playing |-> cmd_ok,
          commands |-> <<Command("start_playback", device_id, <<>>, None, cmd_ok)>>]
    ELSE IF Truthy(current_playback_context)
    THEN [success |-> cmd_ok, is_playing |-> cmd_ok,
          commands |->
            IF StartsWith(current_playback_context, TRACK_PREFIX)
            THEN <<Command("start_playback", device_id,
                           <<current_playback_context>>, None, cmd_ok)>>
            ELSE <<Command("start_playback", device_id,
                           <<>>, current_playback_context, cmd_ok)>>]
    ELSE [success |-> FALSE, is_playing |-> FALSE, commands |-> <<>>]

(***************************************************************************)
(* The sticker printer as the orchestrator sees it (hardware/printer.py):  *)
(* print_qr_sticker returns False at once when the printer is not enabled, *)
(* else whether the transmission went through.                             *)
(***************************************************************************)
print_qr_sticker(enabled, transmit_ok) == enabled /\ transmit_ok

\* The outcomes of a transmission: none is attempted by a printer not enabled.
TransmitOutcomes(enabled) == IF enabled THEN BOOLEAN ELSE {FALSE}

(***************************************************************************)
(* The orchestrator's operations (core/butler.py).  Each computes, from    *)
(* the fields it reads and the answers of its collaborators, the new       *)
(* playback fields, the playback commands sent, the print requests handed  *)
(* to the sticker printer, its return value and the source label.          *)
(***************************************************************************)
NoSource == "None"

Result(ctx, playing, commands, prints, ret, source) ==
    [ctx |-> ctx, playing |-> playing, commands |-> commands,
     prints |-> prints, ret |-> ret, source |-> source]

\* Faulty variant of play_content: the playback fields are set before the
\* outcome of the start command is known.
play_content_eager(ctx, playing, spotify_uri, devices, start_ok) ==
    LET device_id == get_active_device(devices)
        sent == spotify_play_content(spotify_uri, device_id, start_ok)
    IN  IF ~Truthy(device_id)
        THEN Result(ctx, playing, <<>>, <<>>, FALSE, NoSource)
        ELSE Result(spotify_uri, TRUE, sent.commands, <<>>, sent.ret, NoSource)

\* Faulty variant of play_content: the missing device is not checked.
play_content_no_device_check(ctx, playing, spotify_uri, devices, start_ok) ==
    LET device_id == get_active_device(devices)
        sent == spotify_play_content(spotify_uri, device_id, start_ok)
    IN  IF sent.ret
        THEN Result(spotify_uri, TRUE, sent.commands, <<>>, TRUE, NoSource)
        ELSE Result(ctx, playing, sent.commands, <<>>, FALSE, NoSource)

\* MusicButler.play_content
play_content(ctx, playing, spotify_uri, devices, start_ok) ==
    LET device_id == get_active_device(devices)
        sent == spotify_play_content(spotify_uri, device_id, start_ok)
    IN  IF ~Truthy(device_id)
        THEN Result(ctx, playing, <<>>, <<>>, FALSE, NoSource)
        ELSE IF sent.ret
        THEN Result(spotify_uri, TRUE, sent.commands, <<>>, TRUE, NoSource)
        ELSE Result(ctx, playing, sent.commands, <<>>, FALSE, NoSource)

\* MusicButler.toggle_playback
toggle_playback(ctx, playing, devices, resp, cmd_ok) ==
    LET device_id == get_active_device(devices)
        t == spotify_toggle_playback(device_id, ctx, resp, cmd_ok)
    IN  IF ~Truthy(device_id)
        THEN Result(ctx, playing, <<>>, <<>>, FALSE, NoSource)
        ELSE IF t.success
        THEN Result(ctx, t.is_playing, t.commands, <<>>, TRUE, NoSource)
        ELSE Result(ctx, playing, t.commands, <<>>, FALSE, NoSource)

\* MusicButler.print_sticker of the single-file script music_butler.py: the
\* subtitle is the artist, or the owner where the metadata has no artist.
music_butler_print_sticker(ctx, playing, spotify_uri, lookup, enabled, transmit_ok) ==
    LET info == get_content_info(spotify_uri, lookup)
    IN  Result(ctx, playing, <<>>,
               <<[uri |-> spotify_uri, title |-> Get(info, "name", "Unknown"),
                  subtitle |-> Get(info, "artist", Get(info, "owner", ""))]>>,
               print_qr_sticker(enabled, transmit_ok), NoSource)

\* Faulty variant of sticker_text: every identifier is labelled like a playlist.
sticker_text_always_playlist(spotify_uri, info) ==
    [title |-> Get(info, "name", "Unknown"), subtitle |-> "(Playlist)"]

\* The title and the subtitle print_sticker passes to the printer.
sticker_text(spotify_uri, info) ==
    LET title == Get(info, "name", "Unknown")
    IN  IF StartsWith(spotify_uri, PLAYLIST_PREFIX) \/ Get(info, "type", "None") = "playlist"
        THEN IF title = "Unknown" /\ Get(info, "type", "None") = "unknown"
             THEN [title |-> "Playlist", subtitle |-> ""]
             ELSE [title |-> title, subtitle |-> "(Playlist)"]
        ELSE [title |-> title, subtitle |-> Get(info, "artist", Get(info, "owner", ""))]

\* MusicButler.print_sticker
print_sticker(ctx, playing, spotify_uri, lookup, enabled, transmit_ok) ==
    LET text == sticker_text(spotify_uri, get_content_info(spotify_uri, lookup))
    IN  Result(ctx, playing, <<>>,
               <<[uri |-> spotify_uri, title |-> text.title, subtitle |-> text.subtitle]>>,
               print_qr_sticker(enabled, transmit_ok), NoSource)

Printable(uri) == StartsWith(uri, PLAYLIST_PREFIX) \/ StartsWith(uri, ALBUM_PREFIX)

Target(uri, source, failed) == [uri |-> uri, source |-> source, failed |-> failed]

\* Faulty variant of live_target: a track without context is printed as the
\* generic context path would print it.
live_target_generic_label(playback_info) ==
    IF ~playback_info.some
    THEN Target(None, NoSource, FALSE)
    ELSE IF Truthy(playback_info.context_uri) /\ Printable(playback_info.context_uri)
    THEN Target(playback_info.context_uri,
                "current " \o playback_info.context_type, FALSE)
    ELSE IF playback_info.track.present /\ ~Truthy(playback_info.context_uri)
    THEN IF playback_info.track.album_null
         THEN Target(None, NoSource, TRUE)
         ELSE IF Truthy(playback_info.track.album_uri)
         THEN Target(playback_info.track.album_uri,
                     "current " \o playback_info.context_type, FALSE)
         ELSE Target(None, NoSource, TRUE)
    ELSE IF Truthy(playback_info.context_uri)
    THEN Target(None, NoSource, TRUE)
    ELSE Target(None, NoSource, FALSE)

\* Faulty variant of live_target: an unsupported context does not end the call.
live_target_no_unsupported_case(playback_info) ==
    IF ~playback_info.some
    THEN Target(None, NoSource, FALSE)
    ELSE IF Truthy(playback_info.context_uri) /\ Printable(playback_info.context_uri)
    THEN Target(playback_info.context_uri,
                "current " \o playback_info.context_type, FALSE)
    ELSE IF playback_info.track.present /\ ~Truthy(playback_info.context_uri)
    THEN IF playback_info.track.album_null
         THEN Target(None, NoSource, TRUE)
         ELSE IF Truthy(playback_info.track.album_uri)
         THEN Target(playback_info.track.album_uri, "track's album (no context)", FALSE)
         ELSE Target(None, NoSource, TRUE)
    ELSE Target(None, NoSource, FALSE)

\* MusicButler.print_current_content, the live cases: what to print according
\* to the service's current playback.  failed = TRUE is a return False (no
\* album information, an unsupported context, or the AttributeError of
\* track['album'] being None, which the method's except turns into False).
live_target(playback_info) ==
    IF ~playback_info.some
    THEN Target(None, NoSource, FALSE)
    ELSE IF Truthy(playback_info.context_uri) /\ Printable(playback_info.context_uri)
    THEN Target(playback_info.context_uri,
                "current " \o playback_info.context_type, FALSE)
    ELSE IF playback_info.track.present /\ ~Truthy(playback_info.context_uri)
    THEN IF playback_info.track.album_null
         THEN Target(None, NoSource, TRUE)
         ELSE IF Truthy(playback_info.track.album_uri)
         THEN Target(playback_info.track.album_uri, "track's album (no context)", FALSE)
         ELSE Target(None, NoSource, TRUE)
    ELSE IF Truthy(playback_info.context_uri)
    THEN Target(None, NoSource, TRUE)
    ELSE Target(None, NoSource, FALSE)

\* Faulty variant of fallback_target: whatever context is remembered is printed.
fallback_target_any_context(live, current_playback_context) ==
    IF ~Truthy(live.uri) /\ Truthy(current_playback_context)
    THEN Target(current_playback_context, "last played context", FALSE)
    ELSE live

\* MusicButler.print_current_content, the fallback to the last played context.
fallback_target(live, current_playback_context) ==
    IF ~Truthy(live.uri) /\ Truthy(current_playback_context)
       /\ Printable(current_playback_context)
    THEN Target(current_playback_context, "last played context", FALSE)
    ELSE live

\* MusicButler.print_current_content
print_current_content(ctx, playing, resp, lookup, enabled, transmit_ok) ==
    LET live == live_target(get_current_playback(resp))
        target == fallback_target(live, ctx)
    IN  IF live.failed
        THEN Result(ctx, playing, <<>>, <<>>, FALSE, live.source)
        ELSE IF Truthy(target.uri)
        THEN LET printed == print_sticker(ctx, playing, target.uri, lookup,
                                          enabled, transmit_ok)
             IN  Result(ctx, playing, <<>>, printed.prints, printed.ret, target.source)
        ELSE Result(ctx, playing, <<>>, <<>>, FALSE, target.source)

\* Faulty variant of set_volume: the volume is stored as it comes.
set_volume_unclamped(volume_percent) == volume_percent

\* MusicButler.set_volume: the clamped volume stored in current_volume.
set_volume(volume_percent) ==
    IF volume_percent < 0 THEN 0 ELSE IF volume_percent > 100 THEN 100 ELSE volume_percent

\* MusicButler._on_encoder_rotate
on_encoder_rotate(current_volume, position_change) ==
    LET new_volume == set_volume(current_volume - position_change * VOLUME_STEP)
    IN  IF new_volume # current_volume THEN set_volume(new_volume) ELSE current_volume

(***************************************************************************)
(* State                                                                   *)
(***************************************************************************)
VARIABLES
    pc,                         \* the process: "start", "construct", "loop" (run's while
                                \* loop), "cleanup" (run's finally block), "exited"
    last_qr_code,               \* MusicButler.last_qr_code
    last_scan_time,             \* MusicButler.last_scan_time
    print_mode,                 \* MusicButler.print_mode
    current_playback_context,   \* MusicButler.current_playback_context
    is_playing,                 \* MusicButler.is_playing
    current_volume,             \* MusicButler.current_volume
    volume_changes,             \* volume changes so far (bounded by MaxVolumeChanges)
    printer_enabled,            \* StickerPrinter.enabled
    display_available,          \* MusicButler.display_available
    last,                       \* what the operation that ran last did
    text,                       \* the text handed to is_valid_spotify_uri
    verdict,                    \* what is_valid_spotify_uri returned for it
    running,                    \* RotaryEncoderHandler.running
    thread,                     \* _monitor_loop: "check", "body", "callback", "exited"
    stopping,                   \* RotaryEncoderHandler.stop: "idle", "joining", "returned"
    last_button_state,          \* RotaryEncoderHandler.last_button_state
    last_press_time,            \* RotaryEncoderHandler.last_press_time
    edge_time,                  \* time.time() of the poll that last saw the button change
    presses,                    \* the presses the loop saw: the times of both edges
    fired,                      \* the button callbacks the loop invoked, with their times
    env,                        \* what the process finds: config.py, credentials, devices
    pending,                    \* what the user did that the loop has yet to see
    held,                       \* the devices the process holds open
    exit_path,                  \* why the process left or never entered the loop
    exit_status,                \* the exit status of the process, -1 while it runs
    remote,                     \* the playback of the content service
    calls,                      \* the calls the two threads are in the middle of
    connection,                 \* StickerPrinter.profile, endpoints, interface_num
    rotation                    \* the encoder's position, last_position, deltas forwarded

\* The fields of RotaryEncoderHandler and the record of what its loop did.
encoder_vars == <<running, thread, stopping, last_button_state, last_press_time,
                  edge_time, presses, fired>>

\* The service's playback and the calls in progress, for the interleavings of
\* the two threads; the connection the printer recorded; the encoder's knob.
race_vars == <<remote, calls, connection, rotation>>

\* The environment, the user's pending input and the way the process ended.
life_vars == <<env, race_vars, pending, exit_path, exit_status>>

vars == <<pc, last_qr_code, last_scan_time, print_mode, current_playback_context,
          is_playing, current_volume, volume_changes, printer_enabled,
          display_available, last, text, verdict, encoder_vars, life_vars, held>>

\* The record of the operation that ran last (Idle when the last step ran none
\* of play_content, print_sticker, toggle_playback, print_current_content or the
\* scan handling): op names it; qr is the decoded payload, time the reading of
\* time.time() of that frame (current_time), processed whether the
\* payload passed the gate (was reported as detected), valid what validation
\* said, dispatch the operation the scan was routed to; device is what
\* get_active_device returned, info what get_current_playback returned;
\* commands, prints, ret and source are the operation's Result; lookup is what
\* the metadata lookup of a sticker answered and answer what the playback query
\* of toggle_playback answered.
Idle ==
    [op |-> "idle", qr |-> None, time |-> 0, processed |-> FALSE, valid |-> FALSE,
     dispatch |-> "none", device |-> None, info |-> NoPlaybackInfo,
     commands |-> <<>>, prints |-> <<>>, ret |-> FALSE, source |-> NoSource,
     lookup |-> NoLookup, answer |-> FailedResponse]

Ran(op, r) ==
    [Idle EXCEPT !.op = op, !.commands = r.commands, !.prints = r.prints,
                 !.ret = r.ret, !.source = r.source]

\* The record of a scan: the payload, whether it was processed and valid, and
\* the operation it was routed to with that operation's Result.
Scanned(qr_data, current_time, process, valid, dispatch, device, r) ==
    [Ran("scan", r) EXCEPT !.qr = qr_data, !.time = current_time,
                           !.processed = process, !.valid = valid,
                           !.dispatch = dispatch, !.device = device]

\* What time.time() can return for a frame: a reading of the clock is never
\* earlier than a reading taken before it, and last_scan_time is one.
ClockReadings(scan_time) ==
    {t \in ClockStart..(ClockStart + MaxElapsed) : t >= scan_time}

\* The answers of a collaborator to a call: one of answers when the call is
\* made, and the value unasked, which nothing reads, when it is not.
Asked(called, answers, unasked) == IF called THEN answers ELSE {unasked}

\* What decode_qr returns for a frame: None, or the payload of the first code.
Decodes == {None, <<>>, PlaylistA, TrackC, URL_HEAD \o <<"C">>}

EncoderDeltas == {-1, 1}

\* A call of a thread: the operation, how far it is, the context toggle_playback
\* was handed, the answer of the playback query, and what the client returned.
Call(op, at) ==
    [op |-> op, at |-> at, ctx |-> None, seen |-> FailedResponse,
     result |-> [success |-> FALSE, is_playing |-> FALSE]]

\* StickerPrinter before a connection succeeded: the attributes profile,
\* endpoints and interface_num are not set.
NoConnection == [profile |-> "unset", endpoints |-> <<>>, interface_num |-> -1]

\* The knob of the encoder before it is turned: the position the hardware
\* reports, RotaryEncoderHandler.last_position, and the sum of the deltas
\* handed to the volume callback.
NoRotation == [position |-> 0, last_position |-> 0, forwarded |-> 0]

\* No thread is in a call.
NoCalls ==
    [start |-> [ctx |-> None, playing |-> FALSE, remote |-> NoPlayback],
     main |-> Call("none", "done"), encoder |-> Call("none", "done")]

\* An environment in which initialization succeeds: config.py is there with a
\* client id, authentication succeeds, a camera opens, the encoder is connected.
WorkingEnv(printer, display) ==
    [config_file |-> TRUE, client_id |-> "set", authenticated |-> TRUE,
     camera |-> TRUE, encoder |-> TRUE, printer |-> printer, display |-> display]

\* What MusicButler.__init__ leaves open: the camera, and the USB connection of
\* an enabled printer (the preview window is created by the first imshow).
held_after_init(printer) == {"camera"} \cup (IF printer THEN {"printer"} ELSE {})

\* The process as MusicButler.__init__ leaves it in a working environment.
InitLife ==
    /\ env = WorkingEnv(printer_enabled, display_available)
    /\ pending = {}
    /\ held = held_after_init(printer_enabled)
    /\ exit_path = "none"
    /\ exit_status = -1
    /\ remote = NoPlayback
    /\ calls = NoCalls
    /\ connection = NoConnection
    /\ rotation = NoRotation

\* RotaryEncoderHandler.__init__ and start: the thread is about to test the
\* running flag for the first time.
InitEncoder ==
    /\ running = TRUE
    /\ thread = "check"
    /\ stopping = "idle"
    /\ last_button_state = FALSE
    /\ last_press_time = 0
    /\ edge_time = 0
    /\ presses = <<>>
    /\ fired = <<>>

Init ==
    /\ pc = "loop"
    /\ last_qr_code = None
    /\ last_scan_time = 0
    /\ print_mode = FALSE
    /\ current_playback_context = None
    /\ is_playing = FALSE
    /\ current_volume = set_volume(DEFAULT_VOLUME)
    /\ volume_changes = 0
    /\ printer_enabled \in BOOLEAN
    /\ display_available \in BOOLEAN
    /\ last = Idle
    /\ text = <<>>
    /\ verdict = "unset"
    /\ InitEncoder
    /\ InitLife

\* Faulty variant of scan_gate: the cooldown alone gates a payload.
scan_gate_cooldown_only(qr_data, current_time, scan_time, qr_code) ==
    /\ Truthy(qr_data)
    /\ (current_time - scan_time) >= SCAN_COOLDOWN

\* MusicButler.run, the two nested conditions under which a decoded payload
\* is processed.
scan_gate(qr_data, current_time, scan_time, qr_code) ==
    /\ Truthy(qr_data)
    /\ (current_time - scan_time) > SCAN_COOLDOWN
    /\ qr_data # qr_code

\* Faulty variant of scan_update: the time of a processed payload is not stored.
scan_update_keeps_time(process, valid, qr_data, current_time, qr_code, scan_time) ==
    IF process
    THEN [code |-> qr_data, time |-> scan_time]
    ELSE [code |-> qr_code, time |-> scan_time]

\* Faulty variant of scan_update: a payload that fails validation is not remembered.
scan_update_valid_only(process, valid, qr_data, current_time, qr_code, scan_time) ==
    IF process /\ valid
    THEN [code |-> qr_data, time |-> current_time]
    ELSE [code |-> qr_code, time |-> scan_time]

\* MusicButler.run, the assignments to last_qr_code and last_scan_time at the
\* end of both branches of the validation: every processed payload is remembered.
scan_update(process, valid, qr_data, current_time, qr_code, scan_time) ==
    IF process
    THEN [code |-> qr_data, time |-> current_time]
    ELSE [code |-> qr_code, time |-> scan_time]

\* What the operations of the loop leave alone.  The printer's connection is
\* among it: print_qr_sticker closes the connection to flush a sticker and opens
\* it again for the next one.
Fixed ==
    UNCHANGED <<printer_enabled, display_available, text, verdict, encoder_vars,
                life_vars, held>>
scanner_state == <<last_qr_code, last_scan_time>>
playback_state == <<current_playback_context, is_playing>>
volume_state == <<current_volume, volume_changes>>

(***************************************************************************)
(* The main loop (MusicButler.run).  One iteration reads a frame, handles   *)
(* the decoded payload and then the key cv2.waitKey returned.  ProcessFrame *)
(* is the payload handling of an iteration and each Key action the key      *)
(* handling of one; an iteration that does both is the two steps in a row   *)
(* (the key handlers read neither the frame nor the time), an iteration in  *)
(* which nothing is decoded or no key is pressed is the other step alone.   *)
(***************************************************************************)

\* read_frame fails, or nothing is decoded and no key is pressed: the iteration
\* changes nothing.
IdleIteration ==
    /\ pc = "loop"
    /\ last' = Idle
    /\ Fixed
    /\ UNCHANGED <<pc, scanner_state, print_mode, playback_state, volume_state>>

\* A frame is read and decoded, the clock is read (current_time = time.time(),
\* never earlier than the reading before it), and the payload is handled.
ProcessFrame ==
    /\ pc = "loop"
    /\ \E qr_data \in Decodes, current_time \in ClockReadings(last_scan_time) :
        LET process == scan_gate(qr_data, current_time, last_scan_time, last_qr_code)
            valid == process /\ is_valid_spotify_uri(qr_data)
            seen == scan_update(process, valid, qr_data, current_time,
                                last_qr_code, last_scan_time)
        IN  /\ last_qr_code' = seen.code
            /\ last_scan_time' = seen.time
            /\ IF ~valid
               THEN /\ last' = Scanned(qr_data, current_time, process, valid, "none", None,
                                       Result(current_playback_context, is_playing,
                                              <<>>, <<>>, FALSE, NoSource))
                    /\ UNCHANGED playback_state
               ELSE IF print_mode
               THEN \E lookup \in LookupResponses,
                       transmit_ok \in TransmitOutcomes(printer_enabled) :
                      LET r == print_sticker(current_playback_context, is_playing,
                                             qr_data, lookup, printer_enabled,
                                             transmit_ok)
                      IN  /\ last' = [Scanned(qr_data, current_time, process, valid,
                                              "print_sticker", None, r)
                                      EXCEPT !.lookup = lookup]
                          /\ current_playback_context' = r.ctx
                          /\ is_playing' = r.playing
               ELSE \E devices \in DeviceResponses :
                    \E start_ok \in Asked(Truthy(get_active_device(devices)),
                                          BOOLEAN, FALSE) :
                      LET r == play_content(current_playback_context, is_playing,
                                            qr_data, devices, start_ok)
                      IN  /\ last' = Scanned(qr_data, current_time, process, valid, "play_content",
                                             get_active_device(devices), r)
                          /\ current_playback_context' = r.ctx
                          /\ is_playing' = r.playing
    /\ Fixed
    /\ UNCHANGED <<pc, print_mode, volume_state>>

\* What leaving the loop leaves alone.
leave_frame ==
    UNCHANGED <<scanner_state, print_mode, playback_state, volume_state,
                printer_enabled, display_available, text, verdict, encoder_vars,
                env, race_vars, pending, exit_status, held>>

\* Faulty variant of FrameFailed: a frame that cannot be read ends the loop.
FrameFailed_leaves_loop ==
    /\ pc = "loop"
    /\ pc' = "cleanup"
    /\ exit_path' = "exception"
    /\ last' = [Idle EXCEPT !.op = "read_frame"]
    /\ leave_frame

\* read_frame reports a failure (ret is False or the frame is None): the loop
\* sleeps and continues with the next frame, without polling the keyboard.
FrameFailed ==
    /\ pc = "loop"
    /\ last' = [Idle EXCEPT !.op = "read_frame"]
    /\ Fixed
    /\ UNCHANGED <<pc, scanner_state, print_mode, playback_state, volume_state>>

\* 'q' breaks out of the loop; the finally block follows.
KeyQuit ==
    /\ pc = "loop"
    /\ display_available
    /\ pc' = "cleanup"
    /\ exit_path' = "quit"
    /\ last' = Idle
    /\ leave_frame

\* An exception that the loop body does not catch (raised while a frame is
\* decoded or drawn: decode_qr, cv2.putText, cv2.imshow, cv2.waitKey) leaves
\* the loop through the finally block and propagates out of run().
LoopException ==
    /\ pc = "loop"
    /\ pc' = "cleanup"
    /\ exit_path' = "exception"
    /\ last' = Idle
    /\ leave_frame

\* The finally block of run(), and the end of the process: the encoder is
\* stopped if it is enabled, the camera is released, the windows are destroyed
\* if there is a display.  run() then returns to the entry script, which ends
\* (status 0), or the exception reaches the entry script's handler (status 1).
Cleanup ==
    /\ pc = "cleanup"
    /\ pc' = "exited"
    /\ running' = IF env.encoder THEN FALSE ELSE running
    /\ stopping' = IF env.encoder THEN "returned" ELSE stopping
    /\ held' = held \ ({"camera"} \cup (IF display_available THEN {"windows"} ELSE {}))
    /\ exit_status' = IF exit_path = "exception" THEN 1 ELSE 0
    /\ last' = Idle
    /\ UNCHANGED <<scanner_state, print_mode, playback_state, volume_state,
                   printer_enabled, display_available, text, verdict, thread,
                   last_button_state, last_press_time, edge_time, presses, fired,
                   env, race_vars, pending, exit_path>>

\* Faulty variant of KeyMode: the mode is switched whatever the printer.
KeyMode_always_toggles ==
    /\ pc = "loop"
    /\ display_available
    /\ print_mode' = ~print_mode
    /\ last' = Idle
    /\ Fixed
    /\ UNCHANGED <<pc, scanner_state, playback_state, volume_state>>

\* 'm' toggles between Play and Print mode.
KeyMode ==
    /\ pc = "loop"
    /\ display_available
    /\ print_mode' = IF ~printer_enabled /\ ~print_mode THEN print_mode ELSE ~print_mode
    /\ last' = Idle
    /\ Fixed
    /\ UNCHANGED <<pc, scanner_state, playback_state, volume_state>>

\* The step of print_current_content, from the 'p' key or a double press.
PrintCurrent ==
    \E resp \in PlaybackResponses :
      LET printing ==
            LET live == live_target(get_current_playback(resp))
            IN  ~live.failed /\ Truthy(fallback_target(live, current_playback_context).uri)
      IN
      \E lookup \in Asked(printing, LookupResponses, NoLookup),
         transmit_ok \in Asked(printing, TransmitOutcomes(printer_enabled), FALSE) :
        LET r == print_current_content(current_playback_context, is_playing, resp,
                                       lookup, printer_enabled, transmit_ok)
        IN  /\ last' = [Ran("print_current_content", r) EXCEPT
                          !.info = get_current_playback(resp), !.lookup = lookup]
            /\ current_playback_context' = r.ctx
            /\ is_playing' = r.playing

\* The step of toggle_playback, from the space bar or a single press.
TogglePlayback ==
    \E devices \in DeviceResponses :
      \E resp \in Asked(Truthy(get_active_device(devices)), ToggleResponses, FailedResponse) :
      \E cmd_ok \in Asked(toggle_playback(current_playback_context, is_playing,
                                          devices, resp, TRUE).commands # <<>>,
                          BOOLEAN, FALSE) :
        LET r == toggle_playback(current_playback_context, is_playing,
                                 devices, resp, cmd_ok)
        IN  /\ last' = [Ran("toggle_playback", r) EXCEPT
                          !.device = get_active_device(devices), !.answer = resp]
            /\ current_playback_context' = r.ctx
            /\ is_playing' = r.playing

\* The record of a volume change: set_volume stores the volume and runs amixer,
\* whose failure (a non-zero status, or an exception it raises) it ignores.
VolumeSet(called, amixer_ok) ==
    IF called THEN [Idle EXCEPT !.op = "set_volume", !.ret = amixer_ok] ELSE Idle

\* '+' or '=' raises the volume.
KeyVolumeUp ==
    /\ pc = "loop"
    /\ display_available
    /\ volume_changes < MaxVolumeChanges
    /\ current_volume' =
         set_volume(IF current_volume + KEY_VOLUME_STEP > 100
                    THEN 100 ELSE current_volume + KEY_VOLUME_STEP)
    /\ volume_changes' = volume_changes + 1
    /\ \E amixer_ok \in BOOLEAN : last' = VolumeSet(TRUE, amixer_ok)
    /\ Fixed
    /\ UNCHANGED <<pc, scanner_state, print_mode, playback_state>>

\* '-' or '_' lowers the volume.
KeyVolumeDown ==
    /\ pc = "loop"
    /\ display_available
    /\ volume_changes < MaxVolumeChanges
    /\ current_volume' =
         set_volume(IF current_volume - KEY_VOLUME_STEP < 0
                    THEN 0 ELSE current_volume - KEY_VOLUME_STEP)
    /\ volume_changes' = volume_changes + 1
    /\ \E amixer_ok \in BOOLEAN : last' = VolumeSet(TRUE, amixer_ok)
    /\ Fixed
    /\ UNCHANGED <<pc, scanner_state, print_mode, playback_state>>

\* KeyboardInterrupt is caught by run(); the finally block follows.
Interrupt ==
    /\ pc = "loop"
    /\ pc' = "cleanup"
    /\ exit_path' = "interrupt"
    /\ last' = Idle
    /\ leave_frame

(***************************************************************************)
(* The operations the encoder thread's callbacks run, until cleanup stops   *)
(* the thread.                                                              *)
(***************************************************************************)

\* MusicButler._on_encoder_rotate
EncoderRotate ==
    /\ pc = "loop"
    /\ volume_changes < MaxVolumeChanges
    /\ \E position_change \in EncoderDeltas :
        LET called == on_encoder_rotate(current_volume, position_change) # current_volume
        IN  /\ current_volume' = on_encoder_rotate(current_volume, position_change)
            /\ \E amixer_ok \in Asked(called, BOOLEAN, FALSE) :
                 last' = VolumeSet(called, amixer_ok)
    /\ volume_changes' = volume_changes + 1
    /\ Fixed
    /\ UNCHANGED <<pc, scanner_state, print_mode, playback_state>>

\* toggle_playback is called: by the main loop on the space bar, or by the
\* encoder thread on a single press (_on_button_single_press).
CallTogglePlayback ==
    /\ pc = "loop"
    /\ TogglePlayback
    /\ Fixed
    /\ UNCHANGED <<pc, scanner_state, print_mode, volume_state>>

\* print_current_content is called: by the encoder thread on a double press
\* (_on_button_double_press), or by the main loop on 'p' when the printer is
\* enabled ('p' with the printer not enabled prints a warning and calls nothing).
CallPrintCurrentContent ==
    /\ pc = "loop"
    /\ PrintCurrent
    /\ Fixed
    /\ UNCHANGED <<pc, scanner_state, print_mode, volume_state>>

\* The scan, playback, print and mode operations of the main loop and of the
\* encoder thread: every operation but the volume changes.
Next ==
    \/ IdleIteration
    \/ FrameFailed
    \/ ProcessFrame
    \/ KeyQuit
    \/ KeyMode
    \/ Interrupt
    \/ LoopException
    \/ Cleanup
    \/ CallTogglePlayback
    \/ CallPrintCurrentContent

Spec == Init /\ [][Next]_vars

\* The volume changes: the volume keys of the main loop and the rotation
\* callback of the encoder thread.
NextVolume ==
    \/ KeyVolumeUp
    \/ KeyVolumeDown
    \/ EncoderRotate

\* Every operation of the main loop and of the encoder thread.
NextAll == Next \/ NextVolume

SpecAll == Init /\ [][NextAll]_vars

(***************************************************************************)
(* Validation alone: is_valid_spotify_uri applied to each text of Texts.   *)
(***************************************************************************)
InitValidate ==
    /\ pc = "loop"
    /\ last_qr_code = None
    /\ last_scan_time = 0
    /\ print_mode = FALSE
    /\ current_playback_context = None
    /\ is_playing = FALSE
    /\ current_volume = set_volume(DEFAULT_VOLUME)
    /\ volume_changes = 0
    /\ printer_enabled = FALSE
    /\ display_available = FALSE
    /\ last = Idle
    /\ text \in Texts
    /\ verdict = "unset"
    /\ InitEncoder
    /\ InitLife

Validate ==
    /\ verdict = "unset"
    /\ verdict' = IF is_valid_spotify_uri(text) THEN "valid" ELSE "invalid"
    /\ UNCHANGED <<pc, last_qr_code, last_scan_time, print_mode,
                   current_playback_context, is_playing, current_volume,
                   volume_changes, printer_enabled, display_available, last, text,
                   encoder_vars, life_vars, held>>

\* get_content_info applied to the text, and print_sticker for it with a
\* printer that is enabled and transmits: the record returned and the request
\* handed to the printer.
ContentInfo ==
    /\ last.op = "idle"
    /\ \E lookup \in LookupResponses :
         last' = [op |-> "get_content_info", lookup |-> lookup,
                  info |-> get_content_info(text, lookup),
                  sticker |-> print_sticker(None, FALSE, text, lookup, TRUE, TRUE)]
    /\ UNCHANGED <<pc, last_qr_code, last_scan_time, print_mode,
                   current_playback_context, is_playing, current_volume,
                   volume_changes, printer_enabled, display_available, text,
                   verdict, encoder_vars, life_vars, held>>

NextValidate == Validate \/ ContentInfo

SpecValidate == InitValidate /\ [][NextValidate]_vars

(***************************************************************************)
(* print_sticker alone, as the package (core/butler.py) and as the         *)
(* single-file script (music_butler.py) define it, applied to each valid   *)
(* identifier of Texts.                                                    *)
(***************************************************************************)
InitSticker ==
    /\ pc = "loop"
    /\ last_qr_code = None
    /\ last_scan_time = 0
    /\ print_mode = TRUE
    /\ current_playback_context = None
    /\ is_playing = FALSE
    /\ current_volume = set_volume(DEFAULT_VOLUME)
    /\ volume_changes = 0
    /\ printer_enabled \in BOOLEAN
    /\ display_available = FALSE
    /\ last = Idle
    /\ text \in {t \in Texts : is_valid_spotify_uri(t)}
    /\ verdict = "valid"
    /\ InitEncoder
    /\ InitLife

sticker_frame ==
    UNCHANGED <<pc, last_qr_code, last_scan_time, print_mode, current_playback_context,
                is_playing, current_volume, volume_changes, printer_enabled,
                display_available, text, verdict, encoder_vars, life_vars, held>>

\* core/butler.py: MusicButler.print_sticker(text)
PrintSticker ==
    /\ \E lookup \in LookupResponses, transmit_ok \in TransmitOutcomes(printer_enabled) :
         last' = [Ran("print_sticker",
                      print_sticker(current_playback_context, is_playing, text,
                                    lookup, printer_enabled, transmit_ok))
                  EXCEPT !.qr = text, !.lookup = lookup]
    /\ sticker_frame

\* music_butler.py: MusicButler.print_sticker(text)
ScriptPrintSticker ==
    /\ \E lookup \in LookupResponses, transmit_ok \in TransmitOutcomes(printer_enabled) :
         last' = [Ran("music_butler.print_sticker",
                      music_butler_print_sticker(current_playback_context, is_playing,
                                                 text, lookup, printer_enabled,
                                                 transmit_ok))
                  EXCEPT !.qr = text, !.lookup = lookup]
    /\ sticker_frame

NextSticker == PrintSticker \/ ScriptPrintSticker

SpecSticker == InitSticker /\ [][NextSticker]_vars

(***************************************************************************)
(* The two threads in toggle_playback and play_content at once.  The main  *)
(* thread runs one call (toggle_playback for the space bar, or play_content *)
(* for a scanned album), the encoder thread runs toggle_playback for a     *)
(* single press; nothing locks, so the steps of the calls interleave.  An  *)
(* active device is there and every command succeeds.                      *)
(***************************************************************************)
ActiveDevice == CHOOSE d \in DeviceResponses : Truthy(get_active_device(d))

\* What the commands of a call do to the playback of the service: pause,
\* resume, or start the content named.
remote_after(playback, commands) ==
    IF commands = <<>> \/ ~commands[1].ok THEN playback
    ELSE IF commands[1].cmd = "pause_playback" THEN [playback EXCEPT !.is_playing = FALSE]
    ELSE IF Truthy(commands[1].context_uri)
    THEN Playback(TRUE, Context(commands[1].context_uri, "album"), Item(FALSE, AlbumE))
    ELSE IF commands[1].uris # <<>>
    THEN Playback(TRUE, NoContext, Item(FALSE, AlbumE))
    ELSE [playback EXCEPT !.is_playing = TRUE]

\* One call run alone, from the fields and the playback st to those it leaves.
atomic(op, st) ==
    LET r == IF op = "toggle"
             THEN toggle_playback(st.ctx, st.playing, ActiveDevice, Answer(st.remote), TRUE)
             ELSE play_content(st.ctx, st.playing, AlbumB, ActiveDevice, TRUE)
    IN  [ctx |-> r.ctx, playing |-> r.playing,
         remote |-> remote_after(st.remote, r.commands)]

\* What the two calls leave when one runs after the other, in either order.
SerialOutcomes ==
    { atomic(calls.encoder.op, atomic(calls.main.op, calls.start)),
      atomic(calls.main.op, atomic(calls.encoder.op, calls.start)) }

InitRace ==
    /\ pc = "loop"
    /\ last_qr_code = None
    /\ last_scan_time = 0
    /\ print_mode = FALSE
    /\ \E st \in { [ctx |-> None, playing |-> FALSE, remote |-> NoPlayback],
                    [ctx |-> None, playing |-> FALSE,
                     remote |-> Playback(FALSE, NoContext, Item(FALSE, AlbumE))],
                    [ctx |-> None, playing |-> FALSE,
                     remote |-> Playback(TRUE, NoContext, Item(FALSE, AlbumE))],
                    [ctx |-> PlaylistA, playing |-> TRUE,
                     remote |-> Playback(TRUE, Context(PlaylistA, "playlist"),
                                         Item(FALSE, AlbumE))] } :
         /\ current_playback_context = st.ctx
         /\ is_playing = st.playing
         /\ remote = st.remote
         /\ \E op \in {"toggle", "play"} :
              calls = [start |-> st, main |-> Call(op, "called"),
                       encoder |-> Call("toggle", "called")]
    /\ current_volume = set_volume(DEFAULT_VOLUME)
    /\ volume_changes = 0
    /\ printer_enabled = FALSE
    /\ display_available = TRUE
    /\ last = Idle
    /\ text = <<>>
    /\ verdict = "unset"
    /\ InitEncoder
    /\ env = WorkingEnv(FALSE, TRUE)
    /\ pending = {}
    /\ held = held_after_init(FALSE)
    /\ exit_path = "none"
    /\ exit_status = -1
    /\ connection = NoConnection
    /\ rotation = NoRotation

\* What a step of a call leaves alone.
race_frame ==
    UNCHANGED <<pc, scanner_state, print_mode, volume_state, printer_enabled,
                display_available, last, text, verdict, encoder_vars, env, pending,
                exit_path, exit_status, held, connection, rotation>>

\* MusicButler.toggle_playback hands current_playback_context to the client,
\* which asks the service for the playback (sp.current_playback).
ToggleQuery(t) ==
    /\ calls[t].op = "toggle" /\ calls[t].at = "called"
    /\ calls' = [calls EXCEPT ![t].at = "queried", ![t].seen = Answer(remote),
                              ![t].ctx = current_playback_context]
    /\ UNCHANGED <<remote, playback_state>>
    /\ race_frame

\* SpotifyClient.toggle_playback sends the command its answer calls for.
ToggleCommand(t) ==
    /\ calls[t].op = "toggle" /\ calls[t].at = "queried"
    /\ LET r == spotify_toggle_playback(get_active_device(ActiveDevice), calls[t].ctx,
                                        calls[t].seen, TRUE)
       IN  /\ remote' = remote_after(remote, r.commands)
           /\ calls' = [calls EXCEPT ![t].at = "sent",
                          ![t].result = [success |-> r.success,
                                         is_playing |-> r.is_playing]]
    /\ UNCHANGED playback_state
    /\ race_frame

\* MusicButler.toggle_playback stores is_playing if the client succeeded.
ToggleWrite(t) ==
    /\ calls[t].op = "toggle" /\ calls[t].at = "sent"
    /\ is_playing' = IF calls[t].result.success
                     THEN calls[t].result.is_playing ELSE is_playing
    /\ calls' = [calls EXCEPT ![t].at = "done"]
    /\ UNCHANGED <<remote, current_playback_context>>
    /\ race_frame

\* MusicButler.play_content (main thread): the client starts the album.
PlayStart ==
    /\ calls.main.op = "play" /\ calls.main.at = "called"
    /\ remote' = remote_after(remote,
                     spotify_play_content(AlbumB, get_active_device(ActiveDevice),
                                          TRUE).commands)
    /\ calls' = [calls EXCEPT !.main.at = "sent"]
    /\ UNCHANGED playback_state
    /\ race_frame

\* self.current_playback_context = spotify_uri
PlayWriteContext ==
    /\ calls.main.op = "play" /\ calls.main.at = "sent"
    /\ current_playback_context' = AlbumB
    /\ calls' = [calls EXCEPT !.main.at = "context_written"]
    /\ UNCHANGED <<remote, is_playing>>
    /\ race_frame

\* self.is_playing = True
PlayWritePlaying ==
    /\ calls.main.op = "play" /\ calls.main.at = "context_written"
    /\ is_playing' = TRUE
    /\ calls' = [calls EXCEPT !.main.at = "done"]
    /\ UNCHANGED <<remote, current_playback_context>>
    /\ race_frame

NextRace ==
    \/ \E t \in {"main", "encoder"} : ToggleQuery(t) \/ ToggleCommand(t) \/ ToggleWrite(t)
    \/ PlayStart
    \/ PlayWriteContext
    \/ PlayWritePlaying

SpecRace == InitRace /\ [][NextRace]_vars

(***************************************************************************)
(* The knob and the volume keys.  The encoder thread polls the position and *)
(* runs _on_encoder_rotate inside the poll; the main loop handles '+' and   *)
(* '-'.  Both read current_volume and later store into it, with no lock, so *)
(* each is two steps and the steps of the two threads interleave.           *)
(***************************************************************************)
\* Faulty variant of monitor_rotation: last_position is not brought up to date.
monitor_rotation_keeps_last(current_position, last_position) ==
    IF current_position - last_position # 0
    THEN [callbacks |-> <<current_position - last_position>>,
          last_position |-> last_position]
    ELSE [callbacks |-> <<>>, last_position |-> last_position]

\* RotaryEncoderHandler._monitor_loop, the position part of one poll: the
\* arguments of the calls of callback_volume and the new last_position.
monitor_rotation(current_position, last_position) ==
    IF current_position - last_position # 0
    THEN [callbacks |-> <<current_position - last_position>>,
          last_position |-> current_position]
    ELSE [callbacks |-> <<>>, last_position |-> last_position]

InitKnob ==
    /\ pc = "loop"
    /\ last_qr_code = None
    /\ last_scan_time = 0
    /\ print_mode = FALSE
    /\ current_playback_context = None
    /\ is_playing = FALSE
    /\ current_volume = set_volume(DEFAULT_VOLUME)
    /\ volume_changes = 0
    /\ printer_enabled = FALSE
    /\ display_available = TRUE
    /\ last = Idle
    /\ text = <<>>
    /\ verdict = "unset"
    /\ InitEncoder
    /\ env = WorkingEnv(FALSE, TRUE)
    /\ pending = {}
    /\ held = held_after_init(FALSE)
    /\ exit_path = "none"
    /\ exit_status = -1
    /\ remote = NoPlayback
    /\ calls = [main |-> [at |-> "idle", target |-> 0],
                encoder |-> [at |-> "idle", position |-> 0, new_volume |-> 0]]
    /\ connection = NoConnection
    /\ rotation = NoRotation

\* What the knob and the volume keys leave alone.
knob_frame ==
    UNCHANGED <<pc, scanner_state, print_mode, playback_state,
                printer_enabled, display_available, text, verdict, encoder_vars, env,
                pending, held, exit_path, exit_status, remote, connection>>

\* The user turns the knob by one detent.
Turn ==
    /\ \E d \in EncoderDeltas :
         /\ rotation.position + d \in (-MaxPosition)..MaxPosition
         /\ rotation' = [rotation EXCEPT !.position = @ + d]
    /\ last' = Idle
    /\ UNCHANGED <<current_volume, volume_changes, calls>>
    /\ knob_frame

\* One poll: the position is read; if it differs from last_position the volume
\* callback is entered, which computes new_volume from current_volume.
KnobPoll ==
    /\ calls.encoder.at = "idle"
    /\ LET poll == monitor_rotation(rotation.position, rotation.last_position)
       IN  /\ last' = [op |-> "poll", position |-> rotation.position,
                       last_position |-> rotation.last_position,
                       callbacks |-> poll.callbacks]
           /\ IF poll.callbacks = <<>>
              THEN UNCHANGED <<calls, rotation, volume_changes>>
              ELSE /\ volume_changes < MaxVolumeCalls
                   /\ volume_changes' = volume_changes + 1
                   /\ calls' = [calls EXCEPT !.encoder =
                          [at |-> "callback", position |-> poll.last_position,
                           new_volume |-> set_volume(current_volume
                                            - poll.callbacks[1] * VOLUME_STEP)]]
                   /\ rotation' = [rotation EXCEPT !.forwarded =
                                       @ + poll.callbacks[1]]
    /\ UNCHANGED current_volume
    /\ knob_frame

\* _on_encoder_rotate compares new_volume with current_volume and calls
\* set_volume if they differ; the callback returns and the poll stores
\* last_position.
RotateWrite ==
    /\ calls.encoder.at = "callback"
    /\ current_volume' = IF calls.encoder.new_volume # current_volume
                         THEN set_volume(calls.encoder.new_volume)
                         ELSE current_volume
    /\ last' = [op |-> "_on_encoder_rotate", new_volume |-> calls.encoder.new_volume,
                compared |-> current_volume,
                commands |-> IF calls.encoder.new_volume # current_volume
                             THEN <<calls.encoder.new_volume>> ELSE <<>>]
    /\ rotation' = [rotation EXCEPT !.last_position = calls.encoder.position]
    /\ UNCHANGED volume_changes
    /\ calls' = [calls EXCEPT !.encoder = [at |-> "idle", position |-> 0,
                                           new_volume |-> 0]]
    /\ knob_frame

\* '+' or '-': min(100, self.current_volume + 5), max(0, self.current_volume - 5)
KeyRead ==
    /\ calls.main.at = "idle"
    /\ volume_changes < MaxVolumeCalls
    /\ volume_changes' = volume_changes + 1
    /\ \E up \in BOOLEAN :
         calls' = [calls EXCEPT !.main =
             [at |-> "computed",
              target |-> IF up
                         THEN (IF current_volume + KEY_VOLUME_STEP > 100
                               THEN 100 ELSE current_volume + KEY_VOLUME_STEP)
                         ELSE (IF current_volume - KEY_VOLUME_STEP < 0
                               THEN 0 ELSE current_volume - KEY_VOLUME_STEP)]]
    /\ last' = Idle
    /\ UNCHANGED <<current_volume, rotation>>
    /\ knob_frame

\* self.current_volume = ...; self.set_volume(self.current_volume)
KeyWrite ==
    /\ calls.main.at = "computed"
    /\ current_volume' = set_volume(calls.main.target)
    /\ last' = [op |-> "set_volume", commands |-> <<set_volume(calls.main.target)>>]
    /\ calls' = [calls EXCEPT !.main = [at |-> "idle", target |-> 0]]
    /\ UNCHANGED <<rotation, volume_changes>>
    /\ knob_frame

NextKnob == Turn \/ KnobPoll \/ RotateWrite \/ KeyRead \/ KeyWrite

SpecKnob == InitKnob /\ [][NextKnob]_vars

(***************************************************************************)
(* The sticker printer itself (hardware/printer.py): the constructor, which *)
(* tries connection candidates until one succeeds, and print_qr_sticker     *)
(* with its reconnect-and-retry.  The USB environment says for which        *)
(* candidates Usb(...) succeeds; how a transmission ends is an input of the *)
(* call.                                                                    *)
(***************************************************************************)
\* A connection candidate: a profile of the library, or an interface with a
\* pair (out_ep, in_ep); profile None marks the manual candidates.
Candidate(profile, interface_num, endpoints) ==
    [profile |-> profile, endpoints |-> endpoints, interface_num |-> interface_num]

\* endpoint_combos: (0x02,0x82), (0x01,0x81), (0x01,0x82), (0x02,0x81), (0x03,0x83)
endpoint_combos == << <<2, 130>>, <<1, 129>>, <<1, 130>>, <<2, 129>>, <<3, 131>> >>

\* for interface_num in interface_numbers: for out_ep, in_ep in endpoint_combos
RECURSIVE manual_candidates(_)
manual_candidates(interface_numbers) ==
    IF interface_numbers = <<>> THEN <<>>
    ELSE [k \in 1..Len(endpoint_combos) |->
             Candidate("None", Head(interface_numbers), endpoint_combos[k])]
         \o manual_candidates(Tail(interface_numbers))

\* Faulty variant of candidates: interface 0 is tried first for every vendor.
candidates_interface_0_first(vendor_id) ==
    IF vendor_id = JIELI_VENDOR THEN manual_candidates(<<0, 1>>)
    ELSE [k \in 1..3 |-> Candidate(<<"simple", "default", "POS-5890">>[k], -1, <<>>)]
         \o manual_candidates(<<0, 1>>)

\* The candidates of the constructor in the order its loops try them.
candidates(vendor_id) ==
    IF vendor_id = JIELI_VENDOR THEN manual_candidates(<<1, 0>>)
    ELSE [k \in 1..3 |-> Candidate(<<"simple", "default", "POS-5890">>[k], -1, <<>>)]
         \o manual_candidates(<<0, 1>>)

\* The loops over the candidates: the index of the first for which Usb(...)
\* succeeds (break), 0 when every one raised (continue).
RECURSIVE first_success(_, _, _)
first_success(tried, usable, k) ==
    IF k > Len(tried) THEN 0
    ELSE IF tried[k] \in usable THEN k
    ELSE first_success(tried, usable, k + 1)

\* Faulty variant of StickerPrinter_init: the ids are not looked at.
StickerPrinter_init_ignores_ids(library, vendor_id, product_id, usable) ==
    LET k == first_success(candidates(vendor_id), usable, 1)
    IN  IF ~library \/ k = 0
        THEN [enabled |-> FALSE, connection |-> NoConnection]
        ELSE [enabled |-> TRUE, connection |-> candidates(vendor_id)[k]]

\* StickerPrinter.__init__: enabled and the connection it records.  A profile
\* that succeeds sets profile alone; a manual candidate sets profile None,
\* endpoints and interface_num.
StickerPrinter_init(library, vendor_id, product_id, usable) ==
    LET k == first_success(candidates(vendor_id), usable, 1)
    IN  IF ~library \/ vendor_id = 0 \/ product_id = 0 \/ k = 0
        THEN [enabled |-> FALSE, connection |-> NoConnection]
        ELSE [enabled |-> TRUE, connection |-> candidates(vendor_id)[k]]

\* Faulty variant of StickerPrinter_print_qr_sticker: every failure of the first
\* attempt is retried.
StickerPrinter_print_retries_all(enabled, conn, usable, first, retry_sent) ==
    LET k == first_success(manual_candidates(<<0>>), usable, 1)
    IN  IF ~enabled
        THEN [ret |-> FALSE, transmissions |-> 0, reconnects |-> 0, retried |-> FALSE,
              raised |-> FALSE, enabled |-> enabled, connection |-> conn]
        ELSE IF first.sent
        THEN [ret |-> TRUE, transmissions |-> 1, reconnects |-> 0, retried |-> FALSE,
              raised |-> FALSE, enabled |-> enabled, connection |-> conn]
        ELSE IF k = 0
        THEN [ret |-> FALSE, transmissions |-> 1, reconnects |-> 0, retried |-> FALSE,
              raised |-> FALSE, enabled |-> enabled, connection |-> conn]
        ELSE [ret |-> retry_sent, transmissions |-> 2, reconnects |-> 1,
              retried |-> TRUE, raised |-> FALSE, enabled |-> enabled,
              connection |-> [conn EXCEPT !.profile = "None",
                                          !.endpoints = endpoint_combos[k]]]

\* StickerPrinter.print_qr_sticker.  first is how the normal attempt ended:
\* whether printer.image went through and, if not, the signatures the error
\* message carries; retry_sent whether the image, feed and cut of the retry went
\* through.  The result: the return value, the images transmitted, the
\* reconnects with another endpoint pair, whether an exception left the call,
\* and the printer's enabled and connection afterwards.  The except clause
\* tests the signatures in the order device-not-found, endpoint, permission;
\* the retry opens interface 0 with the first endpoint pair that connects and
\* records the pair.  Closing and reopening the connection after a sticker
\* (_reconnect_printer) changes neither enabled nor what is recorded.
StickerPrinter_print_qr_sticker(enabled, conn, usable, first, retry_sent) ==
    LET k == first_success(manual_candidates(<<0>>), usable, 1)
    IN  IF ~enabled
        THEN [ret |-> FALSE, transmissions |-> 0, reconnects |-> 0, retried |-> FALSE,
              raised |-> FALSE, enabled |-> enabled, connection |-> conn]
        ELSE IF first.sent
        THEN [ret |-> TRUE, transmissions |-> 1, reconnects |-> 0, retried |-> FALSE,
              raised |-> FALSE, enabled |-> enabled, connection |-> conn]
        ELSE IF "device not found" \in first.signatures
                \/ "endpoint" \notin first.signatures
                \/ k = 0
        THEN [ret |-> FALSE, transmissions |-> 1, reconnects |-> 0, retried |-> FALSE,
              raised |-> FALSE, enabled |-> enabled, connection |-> conn]
        ELSE [ret |-> retry_sent, transmissions |-> 2, reconnects |-> 1,
              retried |-> TRUE, raised |-> FALSE, enabled |-> enabled,
              connection |-> [conn EXCEPT !.profile = "None",
                                          !.endpoints = endpoint_combos[k]]]

\* The USB environments: whether the escpos library is importable, whether
\* PRINTER_ENABLED is set, the configured ids, and the candidates for which
\* Usb(...) succeeds (at most MaxUsable of them).
PrinterEnvs ==
    LET all == {candidates(OTHER_VENDOR)[k] : k \in 1..Len(candidates(OTHER_VENDOR))}
        ids == {<<JIELI_VENDOR, 1>>, <<OTHER_VENDOR, 1>>, <<0, 1>>, <<OTHER_VENDOR, 0>>}
        found == {<<TRUE, TRUE>>, <<FALSE, TRUE>>, <<TRUE, FALSE>>}
    IN  {[library |-> f[1], configured |-> f[2], vendor_id |-> i[1],
          product_id |-> i[2], usable |-> u] :
            f \in found, i \in ids,
            u \in {c \in SUBSET all : Cardinality(c) <= MaxUsable}}

InitPrinter ==
    /\ pc = "construct"
    /\ last_qr_code = None
    /\ last_scan_time = 0
    /\ print_mode = FALSE
    /\ current_playback_context = None
    /\ is_playing = FALSE
    /\ current_volume = set_volume(DEFAULT_VOLUME)
    /\ volume_changes = 0
    /\ printer_enabled = FALSE
    /\ display_available = FALSE
    /\ last = Idle
    /\ text = <<>>
    /\ verdict = "unset"
    /\ InitEncoder
    /\ env \in PrinterEnvs
    /\ pending = {}
    /\ held = {}
    /\ exit_path = "none"
    /\ exit_status = -1
    /\ remote = NoPlayback
    /\ calls = NoCalls
    /\ connection = NoConnection
    /\ rotation = NoRotation

\* What the printer's operations leave alone.
printer_frame ==
    UNCHANGED <<scanner_state, print_mode, playback_state, volume_state,
                display_available, text, verdict, encoder_vars, env, pending, held,
                exit_path, exit_status, remote, calls, rotation>>

\* MusicButler.__init__ builds the printer: with the configured ids when
\* PRINTER_ENABLED is set, with (0, 0) when it is not.
ConstructPrinter ==
    /\ pc = "construct"
    /\ LET built == IF env.configured
                    THEN StickerPrinter_init(env.library, env.vendor_id,
                                             env.product_id, env.usable)
                    ELSE StickerPrinter_init(env.library, 0, 0, env.usable)
       IN  /\ printer_enabled' = built.enabled
           /\ connection' = built.connection
           /\ last' = [op |-> "StickerPrinter", ret |-> built.enabled]
    /\ pc' = "loop"
    /\ printer_frame

\* One call of print_qr_sticker.
PrintQrSticker ==
    /\ pc = "loop"
    /\ \E sent \in BOOLEAN, retry_sent \in BOOLEAN,
          signatures \in {{}, {"endpoint"}, {"permission"},
                          {"device not found", "endpoint"}} :
         LET first == [sent |-> sent, signatures |-> IF sent THEN {} ELSE signatures]
             r == StickerPrinter_print_qr_sticker(printer_enabled, connection,
                                                  env.usable, first, retry_sent)
         IN  /\ printer_enabled' = r.enabled
             /\ connection' = r.connection
             /\ last' = [op |-> "print_qr_sticker", first |-> first,
                         retry_sent |-> retry_sent, ret |-> r.ret,
                         transmissions |-> r.transmissions,
                         reconnects |-> r.reconnects, retried |-> r.retried,
                         raised |-> r.raised]
    /\ UNCHANGED pc
    /\ printer_frame

NextPrinter == ConstructPrinter \/ PrintQrSticker

SpecPrinter == InitPrinter /\ [][NextPrinter]_vars

(***************************************************************************)
(* The process from its start to its exit: the import of config/settings,  *)
(* MusicButler.__init__, the loop of run() with the user's quit key and    *)
(* interrupt, the finally block, and the exit status the entry script      *)
(* (music_butler.py, __main__) ends with.                                  *)
(***************************************************************************)

\* What the process can find: config.py present or not; in it the client id
\* missing, the placeholder 'YOUR_CLIENT_ID_HERE' or set; whether the OAuth
\* steps succeed; whether a camera opens; which optional devices are there.
Environments ==
    [config_file : BOOLEAN, client_id : {"missing", "placeholder", "set"},
     authenticated : BOOLEAN, camera : BOOLEAN, encoder : BOOLEAN,
     printer : BOOLEAN, display : BOOLEAN]

\* The import of config/settings.py: without config.py it calls sys.exit(1);
\* a config.py without SPOTIPY_CLIENT_ID raises AttributeError, which ends
\* the process with a traceback and status 1.
load_settings(e) ==
    IF ~e.config_file THEN "config"
    ELSE IF e.client_id = "missing" THEN "credentials"
    ELSE "ok"

\* Faulty variant of construct: a missing camera is tolerated.
construct_without_camera(e) ==
    IF e.client_id = "placeholder" THEN "credentials"
    ELSE IF ~e.authenticated THEN "authentication"
    ELSE "ok"

\* MusicButler.__init__: SpotifyClient._authenticate calls sys.exit(1) on the
\* placeholder client id and when authentication fails; sys.exit(1) follows
\* when initialize_camera returns no camera.
construct(e) ==
    IF e.client_id = "placeholder" THEN "credentials"
    ELSE IF ~e.authenticated THEN "authentication"
    ELSE IF ~e.camera THEN "camera"
    ELSE "ok"

InitProcess ==
    /\ pc = "start"
    /\ env \in Environments
    /\ last_qr_code = None
    /\ last_scan_time = 0
    /\ print_mode = FALSE
    /\ current_playback_context = None
    /\ is_playing = FALSE
    /\ current_volume = DEFAULT_VOLUME
    /\ volume_changes = 0
    /\ printer_enabled = FALSE
    /\ display_available = FALSE
    /\ last = Idle
    /\ text = <<>>
    /\ verdict = "unset"
    /\ running = FALSE
    /\ thread = "none"
    /\ stopping = "idle"
    /\ last_button_state = FALSE
    /\ last_press_time = 0
    /\ edge_time = 0
    /\ presses = <<>>
    /\ fired = <<>>
    /\ pending = {}
    /\ held = {}
    /\ exit_path = "none"
    /\ exit_status = -1
    /\ remote = NoPlayback
    /\ calls = NoCalls
    /\ connection = NoConnection
    /\ rotation = NoRotation

\* What the steps before the loop leave alone.
start_frame ==
    UNCHANGED <<last_qr_code, last_scan_time, print_mode, current_playback_context,
                is_playing, current_volume, volume_changes, last, text, verdict,
                stopping, last_button_state, last_press_time, edge_time, presses,
                fired, env, race_vars, pending>>

\* sys.exit(1), or an exception nothing catches, before the loop.
exit_early(path) ==
    /\ pc' = "exited"
    /\ exit_path' = path
    /\ exit_status' = 1

LoadSettings ==
    /\ pc = "start"
    /\ IF load_settings(env) = "ok"
       THEN pc' = "construct" /\ UNCHANGED <<exit_path, exit_status>>
       ELSE exit_early(load_settings(env))
    /\ start_frame
    /\ UNCHANGED <<printer_enabled, display_available, running, thread, held>>

Construct ==
    /\ pc = "construct"
    /\ IF construct(env) = "ok"
       THEN /\ pc' = "loop"
            /\ printer_enabled' = env.printer
            /\ display_available' = env.display
            /\ held' = held_after_init(env.printer)
            /\ running' = env.encoder
            /\ thread' = IF env.encoder THEN "check" ELSE "none"
            /\ UNCHANGED <<exit_path, exit_status>>
       ELSE /\ exit_early(construct(env))
            /\ UNCHANGED <<printer_enabled, display_available, held, running, thread>>
    /\ start_frame

\* What the user's input leaves alone.
input_frame ==
    UNCHANGED <<pc, scanner_state, print_mode, playback_state, volume_state,
                printer_enabled, display_available, last, text, verdict,
                encoder_vars, env, race_vars, exit_path, exit_status, held>>

\* The user presses 'q' in the preview window.
PressQuit ==
    /\ pc = "loop"
    /\ display_available
    /\ "q" \notin pending
    /\ pending' = pending \cup {"q"}
    /\ input_frame

\* The user sends the interrupt signal (Ctrl+C).
SendInterrupt ==
    /\ pc = "loop"
    /\ "SIGINT" \notin pending
    /\ pending' = pending \cup {"SIGINT"}
    /\ input_frame

\* cv2.waitKey returns the 'q' the user pressed.
QuitPressed == "q" \in pending /\ KeyQuit

\* The interpreter raises KeyboardInterrupt for the signal.
Interrupted == "SIGINT" \in pending /\ Interrupt

NextProcess ==
    \/ LoadSettings
    \/ Construct
    \/ IdleIteration
    \/ FrameFailed
    \/ KeyMode
    \/ PressQuit
    \/ SendInterrupt
    \/ QuitPressed
    \/ Interrupted
    \/ LoopException
    \/ Cleanup

SpecProcess == InitProcess /\ [][NextProcess]_vars

\* Each iteration that reads a frame polls the keyboard, the interpreter
\* delivers a pending KeyboardInterrupt, and the finally block runs to its end.
SpecProcessFair ==
    /\ SpecProcess
    /\ WF_vars(QuitPressed)
    /\ WF_vars(Interrupted)
    /\ WF_vars(Cleanup)
    /\ WF_vars(LoadSettings)
    /\ WF_vars(Construct)

(***************************************************************************)
(* The polling thread of the rotary encoder (hardware/encoder.py) and      *)
(* RotaryEncoderHandler.stop, which the main thread calls in its cleanup.  *)
(***************************************************************************)
butler_vars == <<pc, last_qr_code, last_scan_time, print_mode,
                 current_playback_context, is_playing, current_volume,
                 volume_changes, printer_enabled, display_available, last,
                 text, verdict, life_vars, held>>

\* Faulty variant of monitor_poll: a double press does not reset last_press_time.
monitor_poll_no_reset(button_pressed, current_time, button_state, press_time) ==
    IF button_pressed /\ ~button_state
    THEN IF current_time - press_time < DOUBLE_PRESS_TIMEOUT
         THEN [press_time |-> press_time, button_state |-> button_pressed,
               callback |-> "double"]
         ELSE [press_time |-> current_time, button_state |-> button_pressed,
               callback |-> "none"]
    ELSE IF ~button_pressed /\ button_state
    THEN IF current_time - press_time >= DOUBLE_PRESS_TIMEOUT /\ press_time > 0
         THEN [press_time |-> 0, button_state |-> button_pressed, callback |-> "single"]
         ELSE [press_time |-> press_time, button_state |-> button_pressed,
               callback |-> "none"]
    ELSE [press_time |-> press_time, button_state |-> button_pressed, callback |-> "none"]

\* Faulty variant of monitor_poll: a release does not wait for the timeout.
monitor_poll_release_fires(button_pressed, current_time, button_state, press_time) ==
    IF button_pressed /\ ~button_state
    THEN IF current_time - press_time < DOUBLE_PRESS_TIMEOUT
         THEN [press_time |-> 0, button_state |-> button_pressed, callback |-> "double"]
         ELSE [press_time |-> current_time, button_state |-> button_pressed,
               callback |-> "none"]
    ELSE IF ~button_pressed /\ button_state
    THEN IF press_time > 0
         THEN [press_time |-> 0, button_state |-> button_pressed, callback |-> "single"]
         ELSE [press_time |-> press_time, button_state |-> button_pressed,
               callback |-> "none"]
    ELSE [press_time |-> press_time, button_state |-> button_pressed, callback |-> "none"]

\* RotaryEncoderHandler._monitor_loop, the button part of one poll: the new
\* last_press_time and last_button_state and the callback invoked, if any.
monitor_poll(button_pressed, current_time, button_state, press_time) ==
    IF button_pressed /\ ~button_state
    THEN IF current_time - press_time < DOUBLE_PRESS_TIMEOUT
         THEN [press_time |-> 0, button_state |-> button_pressed, callback |-> "double"]
         ELSE [press_time |-> current_time, button_state |-> button_pressed,
               callback |-> "none"]
    ELSE IF ~button_pressed /\ button_state
    THEN IF current_time - press_time >= DOUBLE_PRESS_TIMEOUT /\ press_time > 0
         THEN [press_time |-> 0, button_state |-> button_pressed, callback |-> "single"]
         ELSE [press_time |-> press_time, button_state |-> button_pressed,
               callback |-> "none"]
    ELSE [press_time |-> press_time, button_state |-> button_pressed, callback |-> "none"]

\* What time.time() can return in a poll that sees the button change: later
\* than in the poll that saw the change before (the loop sleeps between polls).
EncoderReadings(latest) ==
    {t \in EncClockStart..(EncClockStart + EncMaxElapsed) : t > latest}

\* Faulty variant of loop_test: the loop does not look at the flag.
loop_test_ignores_flag(flag) == "body"

\* while self.running: the test of the flag at the start of an iteration.
loop_test(flag) == IF flag THEN "body" ELSE "exited"

EncCheck ==
    /\ thread = "check"
    /\ thread' = loop_test(running)
    /\ UNCHANGED <<running, stopping, last_button_state, last_press_time, edge_time,
                   presses, fired, butler_vars>>

\* One poll that sees the button change.  The callback, if one is invoked, runs
\* inside the iteration; last_press_time and last_button_state are read by this
\* thread alone, so the model assigns them at once.
EncPoll ==
    /\ thread = "body"
    /\ \E button_pressed \in BOOLEAN, current_time \in EncoderReadings(edge_time) :
        LET poll == monitor_poll(button_pressed, current_time,
                                 last_button_state, last_press_time)
            pressed == button_pressed /\ ~last_button_state
        IN  /\ button_pressed # last_button_state
            /\ pressed => Len(presses) < MaxPresses
            /\ last_press_time' = poll.press_time
            /\ last_button_state' = poll.button_state
            /\ edge_time' = current_time
            /\ presses' = IF pressed
                          THEN Append(presses, [down |-> current_time, up |-> 0])
                          ELSE [presses EXCEPT ![Len(presses)].up = current_time]
            /\ fired' = IF poll.callback = "none" THEN fired
                        ELSE Append(fired, [callback |-> poll.callback,
                                            time |-> current_time])
            /\ thread' = IF poll.callback = "none" THEN "check" ELSE "callback"
    /\ UNCHANGED <<running, stopping, butler_vars>>

\* A poll in which nothing changed, or one that raised (the except clause
\* prints the error and sleeps): the loop goes on to its next iteration.
EncIdlePoll ==
    /\ thread = "body"
    /\ thread' = "check"
    /\ UNCHANGED <<running, stopping, last_button_state, last_press_time, edge_time,
                   presses, fired, butler_vars>>

\* The callback returns and the iteration ends.
EncReturn ==
    /\ thread = "callback"
    /\ thread' = "check"
    /\ UNCHANGED <<running, stopping, last_button_state, last_press_time, edge_time,
                   presses, fired, butler_vars>>

\* RotaryEncoderHandler.stop: the flag is cleared and the thread joined.
Stop ==
    /\ stopping = "idle"
    /\ running' = FALSE
    /\ stopping' = "joining"
    /\ UNCHANGED <<thread, last_button_state, last_press_time, edge_time, presses,
                   fired, butler_vars>>

\* thread.join(timeout=1.0) returns: the thread has ended or the second is over.
JoinReturn ==
    /\ stopping = "joining"
    /\ stopping' = "returned"
    /\ UNCHANGED <<running, thread, last_button_state, last_press_time, edge_time,
                   presses, fired, butler_vars>>

NextEncoder ==
    \/ EncCheck
    \/ EncPoll
    \/ EncIdlePoll
    \/ EncReturn
    \/ Stop
    \/ JoinReturn

\* The encoder alone, from the state the orchestrator's constructor leaves.
InitEncoderAlone ==
    /\ pc = "loop"
    /\ last_qr_code = None
    /\ last_scan_time = 0
    /\ print_mode = FALSE
    /\ current_playback_context = None
    /\ is_playing = FALSE
    /\ current_volume = set_volume(DEFAULT_VOLUME)
    /\ volume_changes = 0
    /\ printer_enabled = FALSE
    /\ display_available = FALSE
    /\ last = Idle
    /\ text = <<>>
    /\ verdict = "unset"
    /\ InitEncoder
    /\ InitLife

SpecEncoder == InitEncoderAlone /\ [][NextEncoder]_vars

\* The thread is scheduled: it tests the flag, finishes its iteration (a poll
\* sleeps 10 ms, a callback's calls to the content service time out), and a join
\* with a timeout returns.
SpecEncoderFair ==
    /\ SpecEncoder
    /\ WF_vars(EncCheck)
    /\ WF_vars(EncPoll \/ EncIdlePoll)
    /\ WF_vars(EncReturn)
    /\ WF_vars(JoinReturn)

(***************************************************************************)
(* The scan handling of the main loop                                      *)
(***************************************************************************)

\* The step is a frame of the main loop whose decoded payload is not empty.
FrameDecoded == last'.op = "scan" /\ Truthy(last'.qr)

\* C1: a decoded non-empty payload that differs from last_qr_code is acted on in
\* that same frame, however little time has passed since last_scan_time: it is
\* validated, dispatched to play_content or print_sticker if valid, and
\* last_qr_code and last_scan_time are updated.
C1_DifferentCodePreemptsCooldown ==
    [][ (FrameDecoded /\ last'.qr # last_qr_code)
        => /\ last'.processed
           /\ last'.valid = is_valid_spotify_uri(last'.qr)
           /\ last'.valid => last'.dispatch \in {"play_content", "print_sticker"}
           /\ last_qr_code' = last'.qr
           /\ last_scan_time' = last'.time ]_vars

\* C2: the valid identifier stored in last_qr_code, decoded again more than
\* scan_cooldown after last_scan_time, is dispatched again (one play_content or
\* print_sticker call) and the cooldown clock restarts.
C2_SameCodeDispatchedAfterCooldown ==
    [][ (/\ FrameDecoded
         /\ last'.qr = last_qr_code
         /\ is_valid_spotify_uri(last'.qr)
         /\ last'.time - last_scan_time > SCAN_COOLDOWN)
        => /\ last'.dispatch \in {"play_content", "print_sticker"}
           /\ last_scan_time' = last'.time ]_vars

\* C3: a payload equal to last_qr_code, decoded while no more than scan_cooldown
\* has passed since last_scan_time, causes no call of play_content or
\* print_sticker and leaves last_qr_code and last_scan_time unchanged.
C3_SameCodeWithinCooldownIgnored ==
    [][ (/\ last'.op = "scan"
         /\ last'.qr = last_qr_code
         /\ last'.time - last_scan_time <= SCAN_COOLDOWN)
        => /\ last'.dispatch = "none"
           /\ last'.commands = <<>>
           /\ last'.prints = <<>>
           /\ UNCHANGED <<last_qr_code, last_scan_time, current_playback_context,
                          is_playing>> ]_vars

\* The code scanned last is decoded again, later and within the cooldown, and
\* is not processed.
C3_Witness ==
    /\ last.op = "scan"
    /\ Truthy(last.qr)
    /\ last.qr = last_qr_code
    /\ last.time > last_scan_time
    /\ last.time - last_scan_time <= SCAN_COOLDOWN
    /\ ~last.processed

\* C4: is_valid_spotify_uri(text) is true if and only if text is one of the three
\* prefixes followed by a non-empty id; a bare prefix and any other text are
\* rejected.
C4_ValidIffPrefixAndNonEmptyId ==
    verdict # "unset"
    => (verdict = "valid"
        <=> \E p \in Prefixes : StartsWith(text, p) /\ Len(text) > Len(p))

\* C5: a processed payload that fails is_valid_spotify_uri is dispatched to
\* neither play_content nor print_sticker, yet last_qr_code becomes that payload
\* and last_scan_time the current time, and the same invalid code decoded on a
\* later frame is not processed again.
C5_InvalidCodeRememberedNotDispatched ==
    [][ (FrameDecoded /\ ~is_valid_spotify_uri(last'.qr))
        => /\ last'.dispatch = "none"
           /\ last'.commands = <<>>
           /\ last'.prints = <<>>
           /\ UNCHANGED <<current_playback_context, is_playing>>
           /\ last'.processed
              => last_qr_code' = last'.qr /\ last_scan_time' = last'.time
           /\ last'.qr = last_qr_code => ~last'.processed ]_vars

\* An invalid code was processed and is decoded again after the cooldown,
\* without being processed again.
C5_Witness ==
    /\ last.op = "scan"
    /\ Truthy(last.qr)
    /\ ~is_valid_spotify_uri(last.qr)
    /\ last.qr = last_qr_code
    /\ last.time - last_scan_time > SCAN_COOLDOWN
    /\ ~last.processed

(***************************************************************************)
(* Playback                                                                *)
(***************************************************************************)

\* The operation that ran last is play_content, dispatched by a scan in Play mode.
PlayDispatched == last.op = "scan" /\ last.dispatch = "play_content"

\* C6: when a valid identifier is dispatched in Play mode and the start of the
\* playback succeeds, one start_playback command was sent for it (a track in the
\* uris list, a playlist or album as context_uri), current_playback_context is
\* the identifier and is_playing is true.
C6_SuccessfulPlaySetsContext ==
    (PlayDispatched /\ last.ret)
    => /\ Len(last.commands) = 1
       /\ last.commands[1].cmd = "start_playback"
       /\ last.commands[1].ok
       /\ last.commands[1].device_id = last.device
       /\ IF StartsWith(last.qr, TRACK_PREFIX)
          THEN last.commands[1].uris = <<last.qr>> /\ last.commands[1].context_uri = None
          ELSE last.commands[1].uris = <<>> /\ last.commands[1].context_uri = last.qr
       /\ current_playback_context = last.qr
       /\ is_playing

\* A track was dispatched in Play mode and its playback started.
C6_Witness ==
    /\ PlayDispatched
    /\ last.ret
    /\ StartsWith(last.qr, TRACK_PREFIX)
    /\ is_playing

\* C7: play_content and toggle_playback, when get_active_device returns no
\* device, return False, send no command to the content service and leave
\* current_playback_context and is_playing unchanged.
C7_NoDeviceNoCommand ==
    [][ (/\ \/ last'.op = "toggle_playback"
            \/ last'.op = "scan" /\ last'.dispatch = "play_content"
         /\ last'.device = None)
        => /\ ~last'.ret
           /\ last'.commands = <<>>
           /\ UNCHANGED <<current_playback_context, is_playing>> ]_vars

\* play_content found no device while a context was playing.
C7_Witness ==
    /\ PlayDispatched
    /\ last.device = None
    /\ Truthy(current_playback_context)
    /\ current_playback_context # last.qr
    /\ is_playing

\* The step ran a playback operation that succeeded: its one command was accepted.
Succeeded(cmds) ==
    /\ last'.ret
    /\ Len(last'.commands) = 1
    /\ last'.commands[1].cmd \in cmds
    /\ last'.commands[1].ok

\* C8: over every sequence of operations, current_playback_context changes only
\* in a play_content call whose start command succeeded, is_playing changes only
\* in a play_content or toggle_playback call that succeeded, and every failed
\* operation and every print operation leaves both unchanged.
C8_PlaybackFieldsFrame ==
    [][ /\ current_playback_context' # current_playback_context
           => /\ last'.op = "scan" /\ last'.dispatch = "play_content"
              /\ Succeeded({"start_playback"})
              /\ current_playback_context' = last'.qr
        /\ is_playing' # is_playing
           => /\ \/ last'.op = "scan" /\ last'.dispatch = "play_content"
                 \/ last'.op = "toggle_playback"
              /\ Succeeded({"start_playback", "pause_playback"})
        /\ ~last'.ret => UNCHANGED <<current_playback_context, is_playing>>
        /\ (last'.op = "print_current_content" \/ last'.dispatch = "print_sticker")
           => UNCHANGED <<current_playback_context, is_playing>> ]_vars

\* toggle_playback paused the playback of a remembered context.
C8_Witness ==
    /\ last.op = "toggle_playback"
    /\ last.ret
    /\ ~is_playing
    /\ Truthy(current_playback_context)

(***************************************************************************)
(* print_current_content                                                   *)
(***************************************************************************)

\* C9: print_current_content, when the live playback is a track with no context
\* and the track carries an album URI, hands the album URI to the sticker
\* printer (not the remembered context) under the source "track's album (no
\* context)", not under the label "current <context type>".
C9_TrackWithoutContextPrintsAlbum ==
    (/\ last.op = "print_current_content"
     /\ last.info.some
     /\ ~Truthy(last.info.context_uri)
     /\ last.info.track.present
     /\ ~last.info.track.album_null
     /\ Truthy(last.info.track.album_uri))
    => /\ Len(last.prints) = 1
       /\ last.prints[1].uri = last.info.track.album_uri
       /\ last.source = "track's album (no context)"
       /\ last.source # "current " \o last.info.context_type

\* The album of a track playing without context was printed while another,
\* printable context was remembered.
C9_Witness ==
    /\ last.op = "print_current_content"
    /\ last.info.some
    /\ ~Truthy(last.info.context_uri)
    /\ Truthy(last.info.track.album_uri)
    /\ Printable(current_playback_context)
    /\ current_playback_context # last.info.track.album_uri
    /\ last.ret

\* C10: print_current_content, when the live playback has a context that is
\* neither a playlist nor an album, returns False, hands nothing to the sticker
\* printer and does not fall back to current_playback_context.
C10_UnsupportedContextFails ==
    (/\ last.op = "print_current_content"
     /\ last.info.some
     /\ Truthy(last.info.context_uri)
     /\ ~Printable(last.info.context_uri))
    => /\ ~last.ret
       /\ last.prints = <<>>
       /\ last.source # "last played context"

\* An artist context is live while a printable context is remembered and the
\* printer is enabled.
C10_Witness ==
    /\ last.op = "print_current_content"
    /\ last.info.some
    /\ last.info.context_type = "artist"
    /\ Printable(current_playback_context)
    /\ printer_enabled

\* C11: print_current_content, when the content service reports nothing
\* playing, hands the remembered current_playback_context to the sticker printer
\* if and only if it is a playlist or album URI; when it is absent or a track,
\* nothing is printed and the call returns False.  The target is never
\* last_qr_code.
C11_NothingPlayingPrintsRememberedContext ==
    (last.op = "print_current_content" /\ ~last.info.some)
    => IF Printable(current_playback_context)
       THEN /\ Len(last.prints) = 1
            /\ last.prints[1].uri = current_playback_context
            /\ last.source = "last played context"
            /\ last.ret => printer_enabled
       ELSE /\ last.prints = <<>>
            /\ ~last.ret

\* Nothing is playing, the remembered playlist was printed, and the code
\* scanned last is another, valid one.
C11_Witness ==
    /\ last.op = "print_current_content"
    /\ ~last.info.some
    /\ Printable(current_playback_context)
    /\ is_valid_spotify_uri(last_qr_code)
    /\ last_qr_code # current_playback_context
    /\ last.ret

(***************************************************************************)
(* The text of a sticker                                                   *)
(***************************************************************************)

\* C14: print_sticker for an album or track identifier hands the printer the
\* resolved name as title and the artist as subtitle, never "(Playlist)"; when
\* the lookup fails the title is "Unknown".
C14_TrackStickerShowsArtist ==
    (/\ last.op = "scan" /\ last.dispatch = "print_sticker"
     /\ ~StartsWith(last.qr, PLAYLIST_PREFIX))
    => /\ Len(last.prints) = 1
       /\ last.prints[1].uri = last.qr
       /\ last.prints[1].subtitle # "(Playlist)"
       /\ IF last.lookup.ok
          THEN /\ last.prints[1].title = last.lookup.name
               /\ last.prints[1].subtitle = last.lookup.person
          ELSE last.prints[1].title = "Unknown"

\* A track sticker whose lookup succeeded, and was transmitted.
C14_Witness ==
    /\ last.op = "scan" /\ last.dispatch = "print_sticker"
    /\ StartsWith(last.qr, TRACK_PREFIX)
    /\ last.lookup.ok /\ last.ret
    /\ last.prints[1].subtitle = "Ann"

\* C15: print_sticker for a playlist identifier, in the package and in the
\* single-file script, hands the printer the subtitle "(Playlist)", or the title
\* "Playlist" with an empty subtitle when the lookup failed; never the owner,
\* never the title "Unknown".
C15_PlaylistStickerSubtitle ==
    (/\ last.op \in {"print_sticker", "music_butler.print_sticker"}
     /\ StartsWith(last.qr, PLAYLIST_PREFIX))
    => /\ Len(last.prints) = 1
       /\ last.prints[1].title # "Unknown"
       /\ IF last.lookup.ok
          THEN /\ last.prints[1].title = last.lookup.name
               /\ last.prints[1].subtitle = "(Playlist)"
               /\ last.prints[1].subtitle # last.lookup.person
          ELSE /\ last.prints[1].title = "Playlist"
               /\ last.prints[1].subtitle = ""

(***************************************************************************)
(* Failures and the life of the process                                    *)
(***************************************************************************)

\* The operation that ran last met a failure of a collaborator: a content-service
\* call (no device, a failed start, toggle, lookup or playback query), a
\* transmission to the printer, a frame the camera did not deliver, amixer.
CollaboratorFailed ==
    \/ last.op = "read_frame"
    \/ last.op = "set_volume" /\ ~last.ret
    \/ last.op \in {"toggle_playback", "print_current_content"} /\ ~last.ret
    \/ last.op = "scan" /\ last.dispatch \in {"play_content", "print_sticker"}
                       /\ (~last.ret \/ ~last.lookup.ok)

\* The scanner state, the mode and the volume have values of their kind.
LoopStateDefined ==
    /\ last_qr_code \in Decodes
    /\ last_scan_time \in 0..(ClockStart + MaxElapsed)
    /\ print_mode \in BOOLEAN
    /\ current_volume \in 0..100

\* C16: after an operation in which a collaborator failed the main loop is still
\* running, with the scanner state, the mode and the volume defined; the loop
\* is left only by the quit key, an interrupt, or an exception of the frame
\* handling itself.
C16_CollaboratorFailureKeepsLoop ==
    /\ CollaboratorFailed => pc = "loop" /\ LoopStateDefined
    /\ last.op # "idle" => pc = "loop"
    /\ pc # "loop" => exit_path \in {"quit", "interrupt", "exception"}

\* A start command failed in a scan; the payload is remembered, the loop runs.
C16_Witness ==
    /\ last.op = "scan" /\ last.dispatch = "play_content"
    /\ Truthy(last.device) /\ ~last.ret
    /\ last_qr_code = last.qr
    /\ pc = "loop"

\* The environment lacks what initialization needs: config.py, a client id
\* other than the placeholder, or a camera.
InitializationFails ==
    \/ ~env.config_file
    \/ env.client_id \in {"missing", "placeholder"}
    \/ ~env.camera

C18_CleanupReleasesResources ==
    (pc = "exited" /\ exit_path \in {"quit", "interrupt", "exception"})
    => /\ env.encoder => ~running
       /\ "camera" \notin held
       /\ "printer" \notin held

(***************************************************************************)
(* The button of the rotary encoder                                        *)
(***************************************************************************)

\* The callbacks of one kind invoked at a time t with from <= t < to.
Callbacks(kind, from, to) ==
    {k \in 1..Len(fired) :
        fired[k].callback = kind /\ from <= fired[k].time /\ fired[k].time < to}

\* The time of the press after press i, or a time after every reading.
NextPress(i) ==
    IF i < Len(presses) THEN presses[i + 1].down ELSE EncClockStart + EncMaxElapsed + 1

\* Press i is a first press: it is not itself the second press of a double press,
\* after which the loop has reset last_press_time.
FirstPress(i) == Callbacks("double", presses[i].down, presses[i].down + 1) = {}

C13_SeparatePressesFireSingles ==
    \A i \in 1..(Len(presses) - 1) :
        (/\ FirstPress(i)
         /\ presses[i + 1].down - presses[i].down > DOUBLE_PRESS_TIMEOUT
         /\ presses[i + 1].up > 0)
        => /\ Cardinality(Callbacks("single", presses[i].down, presses[i + 1].down)) = 1
           /\ Cardinality(Callbacks("single", presses[i + 1].down, NextPress(i + 1))) = 1
           /\ Callbacks("double", presses[i].down, NextPress(i + 1)) = {}

\* C25: the release of a press invokes the single-press callback exactly when
\* the press started a wait (it did not complete a double press) and is released
\* DOUBLE_PRESS_TIMEOUT or more after it began; a release before the timeout
\* invokes no callback.
C25_ReleaseAfterTimeoutFiresSingle ==
    LET RECURSIVE starts_wait(_)
        starts_wait(i) ==
            \/ i = 1
            \/ ~starts_wait(i - 1)
            \/ presses[i].down - presses[i - 1].down >= DOUBLE_PRESS_TIMEOUT
    IN  \A i \in 1..Len(presses) :
            presses[i].up > 0 =>
                /\ Callbacks("single", presses[i].up, presses[i].up + 1) # {}
                   <=> ( /\ starts_wait(i)
                         /\ presses[i].up - presses[i].down >= DOUBLE_PRESS_TIMEOUT )
                /\ Cardinality(Callbacks("single", presses[i].up, presses[i].up + 1)) <= 1
                /\ Callbacks("double", presses[i].up, presses[i].up + 1) = {}

\* One press was released before the timeout and another at or after it, and
\* the callback of the latter has returned.
C25_Witness ==
    /\ Len(presses) = 2
    /\ presses[1].up > 0
    /\ presses[1].up - presses[1].down < DOUBLE_PRESS_TIMEOUT
    /\ presses[2].down - presses[1].down >= DOUBLE_PRESS_TIMEOUT
    /\ presses[2].up - presses[2].down >= DOUBLE_PRESS_TIMEOUT
    /\ Len(fired) = 1
    /\ thread = "check"

(***************************************************************************)
(* Stopping the encoder thread                                             *)
(***************************************************************************)

\* C19: stop clears the running flag; once it is cleared the thread begins no
\* new iteration (it only finishes the one in progress, callback included) and
\* then leaves its loop; and stop returns, even while the thread is still in a
\* callback.
C19_StopEndsPolling ==
    /\ [](stopping # "idle" => ~running)
    /\ [][(~running /\ thread # "body") => thread' # "body"]_vars
    /\ [][thread = "exited" => thread' = "exited"]_vars
    /\ (~running ~> thread = "exited")
    /\ (stopping = "joining" ~> stopping = "returned")

\* stop has returned while the thread is still inside a callback.
C19_Witness ==
    /\ stopping = "returned"
    /\ ~running
    /\ thread = "callback"

(***************************************************************************)
(* The two threads at once                                                 *)
(***************************************************************************)

\* C20: whatever the interleaving of the main thread's call and the encoder
\* thread's call, once both are over current_playback_context and is_playing
\* are what the two calls leave when run one after the other in some order.
C20_RacesLeaveSerialOutcome ==
    (calls.main.op # "none" /\ calls.main.at = "done" /\ calls.encoder.at = "done")
    => \E s \in SerialOutcomes :
         /\ s.ctx = current_playback_context
         /\ s.playing = is_playing

(***************************************************************************)
(* The sticker printer                                                     *)
(***************************************************************************)

\* C21: when the library is missing, the printer is disabled in configuration,
\* an id is 0, or no candidate the constructor tries connects, the constructor
\* leaves enabled false; and while enabled is false every operation leaves it
\* false and print_qr_sticker returns False without transmitting anything.
C21_DisabledPrinterStaysDisabled ==
    [][ /\ ( /\ pc = "construct"
             /\ \/ ~env.library
                \/ ~env.configured
                \/ env.vendor_id = 0
                \/ env.product_id = 0
                \/ \A c \in env.usable :
                      c.profile # "None" /\ env.vendor_id = JIELI_VENDOR )
           => ~printer_enabled'
        /\ (pc = "loop" /\ ~printer_enabled)
           => /\ ~printer_enabled'
              /\ last'.op = "print_qr_sticker"
                 => (~last'.ret /\ last'.transmissions = 0 /\ last'.reconnects = 0)
      ]_vars

\* A printer for which no candidate connected, though library and ids were
\* there, was asked to print.
C21_Witness ==
    /\ pc = "loop"
    /\ ~printer_enabled
    /\ env.library /\ env.configured /\ env.vendor_id # 0 /\ env.product_id # 0
    /\ last.op = "print_qr_sticker"

\* C22: one call of print_qr_sticker transmits the image at most twice; the
\* second transmission follows one reconnect with an endpoint pair of the
\* fallback list and happens only after a first attempt that failed with the
\* endpoint signature; a retry that fails makes the call return False; no
\* exception leaves the call and a printer that was enabled stays enabled.
C22_PrintRetriesAtMostOnce ==
    last.op = "print_qr_sticker" =>
        /\ last.transmissions <= 2
        /\ last.reconnects <= 1
        /\ last.transmissions = 2 <=> last.retried
        /\ last.retried =>
              /\ ~last.first.sent
              /\ "endpoint" \in last.first.signatures
              /\ last.reconnects = 1
              /\ connection.endpoints \in
                    { <<2, 130>>, <<1, 129>>, <<1, 130>>, <<2, 129>>, <<3, 131>> }
              /\ ~last.retry_sent => ~last.ret
        /\ ~last.raised
        /\ last.transmissions >= 1 => printer_enabled

\* The first attempt failed with an endpoint error, the printer was reconnected,
\* and the retry failed too.
C22_Witness ==
    /\ last.op = "print_qr_sticker"
    /\ last.retried
    /\ ~last.retry_sent
    /\ ~last.ret
    /\ printer_enabled

\* C23: a constructor that gets to the candidates (library there, ids not 0)
\* enables the printer exactly if one of the candidates of its vendor connects,
\* and records the earliest of those in the order: profiles simple, default,
\* POS-5890 (not for vendor 0x4c4a), then the interfaces (0, 1; for vendor
\* 0x4c4a 1, 0) each with the pairs (0x02,0x82), (0x01,0x81), (0x01,0x82),
\* (0x02,0x81), (0x03,0x83).
C23_FirstCandidateInOrder ==
    (last.op = "StickerPrinter" /\ env.library /\ env.configured
        /\ env.vendor_id # 0 /\ env.product_id # 0) =>
      LET jieli == env.vendor_id = 19530
          pos(x, order) == CHOOSE k \in 1..Len(order) : order[k] = x
          rank(c) ==
              IF c.profile # "None"
              THEN pos(c.profile, <<"simple", "default", "POS-5890">>)
              ELSE 3 + 5 * (pos(c.interface_num, IF jieli THEN <<1, 0>> ELSE <<0, 1>>) - 1)
                     + pos(c.endpoints, << <<2, 130>>, <<1, 129>>, <<1, 130>>,
                                           <<2, 129>>, <<3, 131>> >>)
          tried == {c \in env.usable : jieli => c.profile = "None"}
      IN  /\ printer_enabled <=> tried # {}
          /\ printer_enabled =>
                /\ connection \in tried
                /\ \A c \in tried : rank(connection) <= rank(c)

\* Two candidates connect for a printer of vendor 0x4c4a and the one recorded
\* is on interface 0: no pair connected on interface 1, which is tried first.
C23_Witness ==
    /\ last.op = "StickerPrinter"
    /\ printer_enabled
    /\ env.vendor_id = JIELI_VENDOR
    /\ connection.interface_num = 0
    /\ Cardinality({c \in env.usable : c.profile = "None"}) = 2

(***************************************************************************)
(* Content-info lookups                                                    *)
(***************************************************************************)

\* C24: get_content_info returns a record for every identifier; when the remote
\* lookup fails or the identifier has none of the three prefixes the record is
\* the placeholder (type unknown, name Unknown).  The record always has the
\* display text play_content prints, and print_sticker hands a sticker to the
\* printer whatever the lookup answered.
C24_LookupDegradesToPlaceholder ==
    last.op = "get_content_info" =>
        /\ ( \/ ~last.lookup.ok
             \/ ~\E p \in {PLAYLIST_PREFIX, ALBUM_PREFIX, TRACK_PREFIX} : StartsWith(text, p) )
           => /\ {"type", "name"} \subseteq DOMAIN last.info
              /\ last.info.type = "unknown"
              /\ last.info.name = "Unknown"
        /\ "display" \in DOMAIN last.info
        /\ Len(last.sticker.prints) = 1
        /\ last.sticker.prints[1].uri = text
        /\ last.sticker.ret

\* The lookup of a track identifier failed.
C24_Witness ==
    /\ last.op = "get_content_info"
    /\ ~last.lookup.ok
    /\ StartsWith(text, TRACK_PREFIX)
    /\ last.sticker.prints[1].title = "Unknown"

(***************************************************************************)
(* The knob and the volume                                                 *)
(***************************************************************************)

\* C26: a poll that reads a position other than last_position invokes the
\* volume callback once, with the difference; a poll that reads last_position
\* invokes none; and the deltas forwarded add up to the change of position from
\* the start to the last poll that saw one, which last_position holds once the
\* callback has returned.
C26_RotationForwardedOnce ==
    /\ last.op = "poll" =>
          /\ last.position # last.last_position
             => last.callbacks = <<last.position - last.last_position>>
          /\ last.position = last.last_position => last.callbacks = <<>>
    /\ calls.encoder.at = "idle" => rotation.forwarded = rotation.last_position
    /\ calls.encoder.at = "callback" =>
          /\ rotation.forwarded = calls.encoder.position
          /\ calls.encoder.position # rotation.last_position

\* The knob was turned away from its first position and back in part; two
\* callbacks have run and returned.
C26_Witness ==
    /\ last.op = "_on_encoder_rotate"
    /\ calls.encoder.at = "idle"
    /\ volume_changes = 2
    /\ rotation.last_position = -1
    /\ rotation.forwarded = -1
    /\ current_volume = DEFAULT_VOLUME + VOLUME_STEP

\* C30: current_volume is an integer from 0 to 100 in every state the volume
\* keys and the knob lead to, however the steps of the two threads interleave;
\* every volume handed to set_volume's command is in that range; and a rotation
\* whose new volume equals current_volume issues no command.
C30_VolumeInRange ==
    /\ current_volume \in 0..100
    /\ last.op \in {"_on_encoder_rotate", "set_volume"} =>
          \A k \in 1..Len(last.commands) : last.commands[k] \in 0..100
    /\ last.op = "_on_encoder_rotate" =>
          (last.new_volume = last.compared => last.commands = <<>>)

\* At full volume the knob is turned up: the callback issues no command.
C30_Witness ==
    /\ last.op = "_on_encoder_rotate"
    /\ last.compared = 100
    /\ last.new_volume = 100
    /\ last.commands = <<>>
    /\ current_volume = 100

(***************************************************************************)
(* The decision of toggle_playback                                         *)
(***************************************************************************)

\* C27: with an active device, toggle_playback pauses when the service reports
\* playing; else resumes when there is a current item; else starts the
\* remembered context (a track in the uris list, anything else as context_uri);
\* else sends nothing and fails.  A query that raised sends nothing and fails, a
\* command that raised fails; is_playing becomes False after a pause and True
\* after a resume or start that succeeded and is left alone by a call that
\* failed; current_playback_context is left alone.
C27_ToggleDecisionOrder ==
    [][ (last'.op = "toggle_playback" /\ Truthy(last'.device)) =>
          LET a == last'.answer
              sent == last'.commands
              ctx == current_playback_context
              one(cmd, uris, context_uri) ==
                  /\ Len(sent) = 1
                  /\ sent[1].cmd = cmd
                  /\ sent[1].device_id = last'.device
                  /\ sent[1].uris = uris
                  /\ sent[1].context_uri = context_uri
                  /\ last'.ret = sent[1].ok
          IN  /\ IF ~a.ok
                 THEN sent = <<>> /\ ~last'.ret
                 ELSE IF a.playback.exists /\ a.playback.is_playing
                 THEN one("pause_playback", <<>>, None) /\ (last'.ret => ~is_playing')
                 ELSE IF a.playback.exists /\ a.playback.item.present
                 THEN one("start_playback", <<>>, None) /\ (last'.ret => is_playing')
                 ELSE IF ctx # None /\ ctx # <<>>
                 THEN /\ IF StartsWith(ctx, <<"s","p","o","t","i","f","y",":","t","r","a","c","k",":">>)
                         THEN one("start_playback", <<ctx>>, None)
                         ELSE one("start_playback", <<>>, ctx)
                      /\ last'.ret => is_playing'
                 ELSE sent = <<>> /\ ~last'.ret
              /\ ~last'.ret => is_playing' = is_playing
              /\ current_playback_context' = ctx
      ]_vars

\* Nothing to resume and a track remembered: the track was started through the
\* uris list.
C27_Witness ==
    /\ last.op = "toggle_playback"
    /\ last.answer.ok
    /\ ~last.answer.playback.exists
    /\ StartsWith(current_playback_context, TRACK_PREFIX)
    /\ Len(last.commands) = 1
    /\ last.commands[1].uris = <<current_playback_context>>
    /\ last.ret
    /\ is_playing

(***************************************************************************)
(* A processed scan stays processed                                        *)
(***************************************************************************)

\* C28: a payload that passed the gate is stored in last_qr_code, and the time
\* of its frame in last_scan_time, whether the operation it was dispatched to
\* succeeded or failed; a frame that shows the same payload right after it is
\* not processed, so nothing is dispatched again and both fields stay.
C28_ProcessedScanNotRolledBack ==
    [][ /\ (last'.op = "scan" /\ last'.processed)
           => (last_qr_code' = last'.qr /\ last_scan_time' = last'.time)
        /\ ( /\ last.op = "scan" /\ last.processed
             /\ last'.op = "scan" /\ last'.qr = last.qr )
           => /\ ~last'.processed
              /\ last'.dispatch = "none"
              /\ last'.commands = <<>> /\ last'.prints = <<>>
              /\ last_qr_code' = last_qr_code
              /\ last_scan_time' = last_scan_time
      ]_vars

\* A valid code was dispatched to play_content, which failed for want of an
\* active device; the code and the time of the frame are stored all the same.
C28_Witness ==
    /\ last.op = "scan"
    /\ last.processed /\ last.valid
    /\ last.dispatch = "play_content"
    /\ ~Truthy(last.device)
    /\ ~last.ret
    /\ last_qr_code = last.qr
    /\ last_scan_time = last.time

(***************************************************************************)
(* Print mode                                                              *)
(***************************************************************************)

\* C29: in every state of the orchestrator Print mode implies an enabled
\* printer; without a display the mode is Play in every state and every valid
\* scan that is processed is dispatched to play_content.
C29_PrintModeNeedsPrinter ==
    /\ print_mode => printer_enabled
    /\ ~display_available =>
          /\ ~print_mode
          /\ (last.op = "scan" /\ last.valid) => last.dispatch = "play_content"

\* Headless with an enabled printer: a valid scan went to play_content.
C29_Witness ==
    /\ ~display_available
    /\ printer_enabled
    /\ last.op = "scan"
    /\ last.valid
    /\ last.dispatch = "play_content"

====
